---- MODULE Spec2Model ----
(***************************************************************************)
(* Verification model of the jigsaw puzzle repository.                     *)
(*                                                                         *)
(*   SpecGen    -- the piece generator  (src/puzzle/generator.ts)          *)
(*   SpecCanvas -- the canvas engine    (src/puzzle/PuzzleCanvas.tsx,      *)
(*                                       lib/puzzleSave.ts)                *)
(*   SpecLegacy -- the legacy engine    (src/lib/puzzle.ts, PuzzleGame,    *)
(*                                       components/puzzle/PuzzleBoard.tsx)*)
(*                                                                         *)
(* Numbers.  JavaScript doubles are modelled by exact arithmetic: integers *)
(* for pixel coordinates, and for the knob parameters a fixed-point number *)
(* with denominator 100 * 2^32 held in two limbs (see Num below).  32-bit  *)
(* words of the PRNG are held as <<hi, lo>> pairs of 16-bit halves.        *)
(***************************************************************************)
EXTENDS Integers, Sequences, FiniteSets, TLC

VARIABLES
    \* ---- generator ----
    gArgs,      \* arguments of the generatePuzzle call
    gLayout,    \* its result, or NoLayout before the call
    gPrev,      \* the results of the earlier calls with the same arguments
    \* ---- canvas engine (PuzzleCanvas.tsx) ----
    cProps,     \* props of the mounted PuzzleCanvas: cols, rows, loadedPiecesState, loadedTrayIds
    cCanvas,    \* CSS size of the canvas element: [w, h]
    board,      \* boardRef.current: boardX, boardY, boardW, boardH, pieces, groups
    trayIds,    \* trayIdsRef.current
    drag,       \* dragRef.current, or NoDrag
    lastInDrawer, \* whether lastPointerYRef.current lies in the drawer zone
    isComplete, \* isCompleteRef.current
    placedCount, \* placedCountRef.current
    completeCalls, \* number of onComplete() invocations since the mount
    saved,      \* the record written by the last savePuzzle, or NoSave
    atSave,     \* board.groups and the board size at the moment of that save
    screen,     \* App.tsx screen: "puzzle" or "landing"
    trayPress,  \* per pointer, the piece its pending tray gesture holds (DrawerTray.tsx), or 0
    \* ---- legacy engine (pages/Auth.tsx PuzzleGame, lib/puzzle.ts) ----
    boardPieces, \* the boardPieces state
    trayPieces, \* the trayPieces state
    dragging,   \* PuzzleBoard draggingId / draggingGroupId, or NoDragging
    snapLog,    \* the merges of the trySnap of the drop just handled, with the array before and after each
    \* ---- autoSave of the legacy page (pages/PuzzleGame.tsx) ----
    savingRef,     \* savingRef.current
    gameIdRef,     \* gameIdRef.current, 0 for null
    writes,        \* the database writes autoSave has started, each in flight or ended
    puzzle_games,  \* the rows of the table, the id of a row being its index
    page,          \* "game" until navigate("/"), then "home"
    backAt,        \* the piece lists at the press of the back button
    \* ---- splitImage with the varied tabs (lib/puzzle.ts, enhanced version) ----
    tabs,          \* the EnhancedTabsConfig of the game, or NoTabs
    outlines       \* per piece id, the four sides drawPiecePath drew for it

genVars == <<gArgs, gLayout, gPrev>>
canvasVars == <<cProps, cCanvas, board, trayIds, drag, lastInDrawer, isComplete,
                placedCount, completeCalls, saved, atSave, screen, trayPress>>
legacyVars == <<boardPieces, trayPieces, dragging, snapLog>>
saveVars == <<savingRef, gameIdRef, writes, puzzle_games, page, backAt>>
tabVars == <<tabs, outlines>>
vars == <<gArgs, gLayout, gPrev, cProps, cCanvas, board, trayIds, drag, lastInDrawer,
          isComplete, placedCount, completeCalls, saved, atSave, screen, trayPress,
          boardPieces, trayPieces, dragging, snapLog,
          savingRef, gameIdRef, writes, puzzle_games, page, backAt, tabs, outlines>>

(***************************************************************************)
(* 32-bit words as <<hi, lo>>, both halves in 0..65535                     *)
(***************************************************************************)
Half == 256 * 256

RECURSIVE Xor16(_, _, _)
Xor16(a, b, n) ==
    IF n = 0 THEN 0
    ELSE (IF (a % 2) # (b % 2) THEN 1 ELSE 0) + 2 * Xor16(a \div 2, b \div 2, n - 1)

RECURSIVE Or16(_, _, _)
Or16(a, b, n) ==
    IF n = 0 THEN 0
    ELSE (IF (a % 2) = 1 \/ (b % 2) = 1 THEN 1 ELSE 0) + 2 * Or16(a \div 2, b \div 2, n - 1)

Xor32(a, b) == <<Xor16(a[1], b[1], 16), Xor16(a[2], b[2], 16)>>
Or32(a, b) == <<Or16(a[1], b[1], 16), Or16(a[2], b[2], 16)>>

Add32(a, b) ==
    LET lo == a[2] + b[2]
    IN  <<(a[1] + b[1] + (lo \div Half)) % Half, lo % Half>>

Pow2(n) == CASE n = 7 -> 128 [] n = 14 -> 16384 [] n = 15 -> 32768
             [] n = 9 -> 512 [] n = 2 -> 4 [] n = 1 -> 2

\* logical shift right by n, 0 < n < 16
Shr32(a, n) ==
    <<a[1] \div Pow2(n), (a[2] \div Pow2(n)) + (a[1] % Pow2(n)) * Pow2(16 - n)>>

\* (x * y) mod 2^16 without leaving 31 bits
MulLo16(x, y) == ((x % 256) * y + (((x \div 256) * y) % 256) * 256) % Half

\* Math.imul: the low 32 bits of the product
Imul(a, b) ==
    LET p == (a[2] % 256) * b[2]
        q == (a[2] \div 256) * b[2]
        s == p + (q % 256) * 256
        carry == (s \div Half) + (q \div 256)
    IN  <<(carry + MulLo16(a[1], b[2]) + MulLo16(b[1], a[2])) % Half, s % Half>>

\* 0x6d2b79f5
MulberryInc == <<27947, 31221>>
W(n) == <<0, n>>

\* one call of the closure returned by mulberry32: the new seed and the
\* 32-bit numerator u of the returned value u / 2^32
mulberry32(seed) ==
    LET s1 == Add32(seed, MulberryInc)
        t1 == Imul(Xor32(s1, Shr32(s1, 15)), Or32(W(1), s1))
        t2 == Xor32(Add32(t1, Imul(Xor32(t1, Shr32(t1, 7)), Or32(W(61), t1))), t1)
    IN  [seed |-> s1, u |-> Xor32(t2, Shr32(t2, 14))]

\* rng() > 0.5
AboveHalf(u) == u[1] > 32768 \/ (u[1] = 32768 /\ u[2] > 0)

(***************************************************************************)
(* Num: the rational (A * 2^16 + B) / (100 * 2^32), as <<A, B>>, B in      *)
(* 0..65535.                                                               *)
(***************************************************************************)
NumNorm(A, B) == <<A + (B \div Half), B % Half>>
NumHundredths(c) == <<c * Half, 0>>
NumAdd(x, y) == NumNorm(x[1] + y[1], x[2] + y[2])
NumNeg(x) == NumNorm(-x[1], -x[2])
NumSub(x, y) == NumAdd(x, NumNeg(y))
\* k/100 * (u / 2^32)
NumScaleU(k, u) == NumNorm(k * u[1], k * u[2])
NumOne == NumHundredths(100)
NumZero == NumHundredths(0)

(***************************************************************************)
(* generator.ts                                                            *)
(***************************************************************************)
FlatEdge == [type |-> "flat", size |-> NumOne, offset |-> NumHundredths(50), tilt |-> NumZero]

\* the state of the closure after k calls: generator.ts:57 is its only
\* update, so k calls add k * 0x6d2b79f5 modulo 2^32
SeedAfter(seed, k) == Add32(seed, Imul(W(k), MulberryInc))

\* the value returned by the k-th call of rng
RngCall(seed, k) == mulberry32(SeedAfter(seed, k - 1)).u

\* makeEdge giving a flat edge in place of every blank
makeEdge_FlatForBlank(seed, k, isFlat, isTab) ==
    IF isFlat \/ ~isTab THEN FlatEdge
    ELSE [type   |-> "tab",
          size   |-> NumAdd(NumHundredths(85), NumScaleU(25, RngCall(seed, k + 1))),
          offset |-> NumAdd(NumHundredths(36), NumScaleU(28, RngCall(seed, k + 2))),
          tilt   |-> NumAdd(NumHundredths(-6), NumScaleU(12, RngCall(seed, k + 3)))]

\* makeEdge(rng, isFlat, isTab) when k calls of rng were made before it
makeEdge(seed, k, isFlat, isTab) ==
    IF isFlat THEN FlatEdge
    ELSE [type   |-> IF isTab THEN "tab" ELSE "blank",
          size   |-> NumAdd(NumHundredths(85), NumScaleU(25, RngCall(seed, k + 1))),
          offset |-> NumAdd(NumHundredths(36), NumScaleU(28, RngCall(seed, k + 2))),
          tilt   |-> NumAdd(NumHundredths(-6), NumScaleU(12, RngCall(seed, k + 3)))]

\* calls of rng made by the first n iterations of the two loops at
\* generator.ts:91-106: one for isTab, three more in makeEdge unless flat
CallsBefore(flats, n) == n + 3 * Cardinality({i \in 1..n : ~flats[i]})

\* the i-th iteration of the loops: isTab = rng() > 0.5, then makeEdge
EdgeAt(seed, flats, i) ==
    makeEdge(seed, CallsBefore(flats, i - 1) + 1, flats[i],
             AboveHalf(RngCall(seed, CallsBefore(flats, i - 1) + 1)))

\* the type swap of the bottom and left views
InvertType(t) == IF t = "tab" THEN "blank" ELSE IF t = "blank" THEN "tab" ELSE "flat"

\* the mirrored view with the type inverted but offset and tilt kept
MirrorEdge_NoFlip(e) ==
    [type |-> InvertType(e.type), size |-> e.size, offset |-> e.offset, tilt |-> e.tilt]

\* the mirrored view of a shared edge (bottomEdge, leftEdge)
MirrorEdge(e) ==
    [type |-> InvertType(e.type), size |-> e.size,
     offset |-> NumSub(NumOne, e.offset), tilt |-> NumNeg(e.tilt)]

\* the view taken as generated (topEdge, rightEdge)
SameEdge(e) == e

PieceId(c, r) == <<c, r>>

\* column and row of the i-th piece pushed by the loops at generator.ts:110-111
PieceCol(i, cols) == (i - 1) % cols
PieceRow(i, cols) == (i - 1) \div cols

\* the fields of the i-th piece that do not depend on the edges
layoutPiece(imageWidth, imageHeight, cols, rows, i) ==
    LET pieceWidth == imageWidth \div cols
        pieceHeight == imageHeight \div rows
        r == PieceRow(i, cols)
        c == PieceCol(i, cols)
    IN  [col |-> c, row |-> r,
         solvedX |-> c * pieceWidth, solvedY |-> r * pieceHeight,
         x |-> 0, y |-> 0,
         width |-> pieceWidth, height |-> pieceHeight,
         isPlaced |-> FALSE, isSelected |-> FALSE,
         id |-> PieceId(c, r)]

generatePuzzle(imageWidth, imageHeight, cols, rows, seed) ==
    LET pieceWidth == imageWidth \div cols
        pieceHeight == imageHeight \div rows
        hFlats == [i \in 1..((rows + 1) * cols) |->
                      LET r == (i - 1) \div cols IN r = 0 \/ r = rows]
        vFlats == [i \in 1..(rows * (cols + 1)) |->
                      LET c == (i - 1) % (cols + 1) IN c = 0 \/ c = cols]
        \* the flags of both loops in call order: hEdges, then vEdges
        flats == hFlats \o vFlats
        hEdges(r, c) == EdgeAt(W(seed), flats, r * cols + c + 1)
        vEdges(r, c) == EdgeAt(W(seed), flats, (rows + 1) * cols + r * (cols + 1) + c + 1)
        piece(i) ==
            LET g == layoutPiece(imageWidth, imageHeight, cols, rows, i)
                r == g.row
                c == g.col
            IN  [col |-> c, row |-> r,
                 edges |-> <<SameEdge(hEdges(r, c)), SameEdge(vEdges(r, c + 1)),
                             MirrorEdge(hEdges(r + 1, c)), MirrorEdge(vEdges(r, c))>>,
                 solvedX |-> g.solvedX, solvedY |-> g.solvedY,
                 x |-> g.x, y |-> g.y,
                 width |-> g.width, height |-> g.height,
                 isPlaced |-> g.isPlaced, isSelected |-> g.isSelected,
                 id |-> g.id, zIndex |-> 0]
    IN  [cols |-> cols, rows |-> rows,
         pieceWidth |-> pieceWidth, pieceHeight |-> pieceHeight,
         pieces |-> [i \in 1..(rows * cols) |-> piece(i)],
         boardWidth |-> imageWidth, boardHeight |-> imageHeight]

NoLayout == [cols |-> 0]

(***************************************************************************)
(* generator.ts buildPiecePath.  An edge runs along one axis, so its unit  *)
(* vector is a sign and its length |dx| + |dy|.  A coordinate of a knob    *)
(* point is kept as the exact sum                                          *)
(*     p + t / 10 + (k / 1000) * knobH                                     *)
(* with p and t of kind Num and k a whole number, and knobH is kept as     *)
(* its two factors: knobH = min(w, h) * knobScale * size.                  *)
(***************************************************************************)
Sign(d) == IF d > 0 THEN 1 ELSE IF d < 0 THEN 0 - 1 ELSE 0
Abs(d) == IF d < 0 THEN 0 - d ELSE d
NumInt(n) == NumHundredths(100 * n)
NumScale(k, x) == NumNorm(k * x[1], k * x[2])

\* drawEdge with the tilt pushed the same way whatever the direction of the edge
drawEdge_TiltOneWay(x1, y1, x2, y2, edge, normal, m) ==
    IF edge.type = "flat" THEN [flat |-> TRUE]
    ELSE
    LET dx == x2 - x1
        dy == y2 - y1
        edgeLen == Abs(dx) + Abs(dy)
        ex == Sign(dx)
        ey == Sign(dy)
        dir == IF edge.type = "tab" THEN 1 ELSE 0 - 1
        nx == normal.nx * dir
        ny == normal.ny * dir
        cx == [p |-> NumAdd(NumInt(x1), NumScale(dx, edge.offset)),
               t |-> NumScale(Abs(ey) * edgeLen, edge.tilt)]
        cy == [p |-> NumAdd(NumInt(y1), NumScale(dy, edge.offset)),
               t |-> NumScale(0 - Abs(ex) * edgeLen, edge.tilt)]
        at(kx, ky) == [x |-> [p |-> cx.p, t |-> cx.t, k |-> kx],
                       y |-> [p |-> cy.p, t |-> cy.t, k |-> ky]]
    IN  [flat |-> FALSE,
         knobH |-> [m |-> m, size |-> edge.size],
         n |-> [nx |-> nx, ny |-> ny],
         c |-> at(0, 0),
         b1 |-> at(0 - ex * 288, 0 - ey * 288),
         b2 |-> at(ex * 288, ey * 288),
         s1 |-> at(0 - ex * 450 + nx * 400, 0 - ey * 450 + ny * 400),
         s2 |-> at(ex * 450 + nx * 400, ey * 450 + ny * 400),
         tip |-> at(nx * 1000, ny * 1000)]

\* drawEdge(x1, y1, x2, y2, edge, normal) in a piece with min(w, h) = m: the
\* points the knob is drawn through.  In thousandths of knobH: neckW = 0.9 *
\* 0.32 = 288, headW = 0.9 * 0.5 = 450, shoulderH = 400
drawEdge(x1, y1, x2, y2, edge, normal, m) ==
    IF edge.type = "flat" THEN [flat |-> TRUE]
    ELSE
    LET dx == x2 - x1
        dy == y2 - y1
        edgeLen == Abs(dx) + Abs(dy)
        ex == Sign(dx)
        ey == Sign(dy)
        dir == IF edge.type = "tab" THEN 1 ELSE 0 - 1
        nx == normal.nx * dir
        ny == normal.ny * dir
        cx == [p |-> NumAdd(NumInt(x1), NumScale(dx, edge.offset)),
               t |-> NumScale(ey * edgeLen, edge.tilt)]
        cy == [p |-> NumAdd(NumInt(y1), NumScale(dy, edge.offset)),
               t |-> NumScale(0 - ex * edgeLen, edge.tilt)]
        at(kx, ky) == [x |-> [p |-> cx.p, t |-> cx.t, k |-> kx],
                       y |-> [p |-> cy.p, t |-> cy.t, k |-> ky]]
    IN  [flat |-> FALSE,
         knobH |-> [m |-> m, size |-> edge.size],
         n |-> [nx |-> nx, ny |-> ny],
         c |-> at(0, 0),
         b1 |-> at(0 - ex * 288, 0 - ey * 288),
         b2 |-> at(ex * 288, ey * 288),
         s1 |-> at(0 - ex * 450 + nx * 400, 0 - ey * 450 + ny * 400),
         s2 |-> at(ex * 450 + nx * 400, ey * 450 + ny * 400),
         tip |-> at(nx * 1000, ny * 1000)]

\* buildPiecePath(piece): the four drawEdge calls, in local coordinates
buildPiecePath(piece) ==
    LET w == piece.width
        h == piece.height
        m == IF w < h THEN w ELSE h
    IN  <<drawEdge(0, 0, w, 0, piece.edges[1], [nx |-> 0, ny |-> 0 - 1], m),
          drawEdge(w, 0, w, h, piece.edges[2], [nx |-> 1, ny |-> 0], m),
          drawEdge(w, h, 0, h, piece.edges[3], [nx |-> 0, ny |-> 1], m),
          drawEdge(0, h, 0, 0, piece.edges[4], [nx |-> 0 - 1, ny |-> 0], m)>>

\* ---- bounds of the generator runs ----
MaxSeed == 11
MaxGrid == 3
\* calls of generatePuzzle with one set of arguments
MaxCalls == 3
GenSeeds == 0..MaxSeed \cup {42}
GenSizes == {120, 240}

NoDrag == [piece |-> 0, fromTray |-> FALSE]
NoSave == [piecesState |-> << >>, trayIds |-> {}, placedCount |-> 0, total |-> 0,
           isCompleted |-> FALSE]
NoBoard == [boardX |-> 0, boardY |-> 0, boardW |-> 0, boardH |-> 0,
            pieces |-> << >>, groups |-> << >>]
NoProps == [cols |-> 0, rows |-> 0, imageW |-> 0, imageH |-> 0,
            loadedPiecesState |-> << >>, loadedTrayIds |-> {}]
NoAtSave == [groups |-> << >>, boardW |-> 0, boardH |-> 0]

NoDragging == [id |-> 0 - 1, groupId |-> 0 - 1]
NoSnapLog == [dragged |-> 0 - 1, merges |-> << >>]

\* the legacy engine's variables, idle while another engine is checked
NoTabs == [rows |-> 0, cols |-> 0]
TabsIdle == tabs = NoTabs /\ outlines = << >>

LegacyIdle ==
    /\ boardPieces = << >> /\ trayPieces = << >> /\ dragging = NoDragging /\ snapLog = NoSnapLog
    /\ TabsIdle

\* what autoSave writes: the two piece lists; NoData before any press of back
NoData == [board |-> << >>, tray |-> << >>, none |-> TRUE]

\* the page of the legacy game and its autoSave, idle while another engine is
\* checked
SaveIdle ==
    /\ savingRef = FALSE /\ gameIdRef = 0 /\ writes = << >>
    /\ puzzle_games = << >> /\ page = "none" /\ backAt = NoData

CanvasOff ==
    /\ cProps = NoProps /\ cCanvas = [w |-> 0, h |-> 0] /\ board = NoBoard
    /\ trayIds = {} /\ drag = NoDrag /\ lastInDrawer = FALSE
    /\ isComplete = FALSE /\ placedCount = 0 /\ completeCalls = 0
    /\ saved = NoSave /\ atSave = NoAtSave
    /\ screen = "none" /\ trayPress = << >>

\* the canvas engine's variables, idle while the generator is checked
CanvasIdle ==
    /\ SaveIdle
    /\ CanvasOff


GenInit ==
    /\ CanvasIdle /\ LegacyIdle
    /\ gArgs \in [imageWidth : GenSizes, imageHeight : {120}, cols : 1..MaxGrid,
                  rows : 1..MaxGrid, seed : GenSeeds]
    /\ gLayout = NoLayout
    /\ gPrev = << >>

\* the closure of mulberry32 carrying on from where the closures of the
\* earlier calls stopped
closureSeed_Shared(seed, calls) == seed + calls

\* const rng = mulberry32(seed): a closure of its own for each call, started
\* from the argument whatever number of calls went before
closureSeed(seed, calls) == seed

\* a call of generatePuzzle with the arguments gArgs
Generate ==
    /\ Len(gPrev) + (IF gLayout = NoLayout THEN 0 ELSE 1) < MaxCalls
    /\ gLayout' = generatePuzzle(gArgs.imageWidth, gArgs.imageHeight, gArgs.cols,
                                 gArgs.rows,
                                 closureSeed(gArgs.seed, Len(gPrev) +
                                             (IF gLayout = NoLayout THEN 0 ELSE 1)))
    /\ gPrev' = IF gLayout = NoLayout THEN gPrev ELSE Append(gPrev, gLayout)
    /\ UNCHANGED gArgs
    /\ UNCHANGED canvasVars
    /\ UNCHANGED legacyVars
    /\ UNCHANGED <<saveVars, tabVars>>

NextGen == Generate

SpecGen == GenInit /\ [][NextGen]_vars

\* ---- generatePuzzle on arguments of any kind ----
\* a JavaScript number: a whole number, or one of the three values that are
\* not finite
JsFinite(n) == [is |-> "finite", n |-> n]
JsInfinity == [is |-> "Infinity", n |-> 0]
JsNegInfinity == [is |-> "-Infinity", n |-> 0]
JsNaN == [is |-> "NaN", n |-> 0]

\* a / b for a JavaScript number a and a whole number b
JsDivide(a, b) ==
    IF a.is = "NaN" THEN JsNaN
    ELSE IF a.is = "Infinity" THEN (IF b < 0 THEN JsNegInfinity ELSE JsInfinity)
    ELSE IF a.is = "-Infinity" THEN (IF b < 0 THEN JsInfinity ELSE JsNegInfinity)
    ELSE IF b = 0 THEN (IF a.n = 0 THEN JsNaN
                        ELSE IF a.n > 0 THEN JsInfinity ELSE JsNegInfinity)
    ELSE IF b > 0 THEN JsFinite(a.n \div b)
    ELSE JsFinite(0 - (a.n \div (0 - b)))

\* c * w for a whole number c >= 0 and a JavaScript number w
JsTimes(c, w) ==
    IF w.is = "finite" THEN JsFinite(c * w.n)
    ELSE IF w.is = "NaN" \/ c = 0 THEN JsNaN
    ELSE w

\* what a call of generatePuzzle that threw would leave its caller with
GenFailure == [cols |-> 0, failed |-> TRUE]

\* generatePuzzle for any numbers: generator.ts:74-164 has no test of its
\* arguments and no throw.  The loops at 88-106 and 110-111 run as far as cols
\* and rows let them, and the divisions at 82-83 give what JavaScript gives
generatePuzzleAny(a) ==
    LET pieceWidth == JsDivide(a.imageWidth, a.cols)
        pieceHeight == JsDivide(a.imageHeight, a.rows)
    IN  IF /\ a.cols >= 1 /\ a.rows >= 1
           /\ a.imageWidth.is = "finite" /\ a.imageHeight.is = "finite"
        THEN generatePuzzle(a.imageWidth.n, a.imageHeight.n, a.cols, a.rows, a.seed)
        ELSE IF a.cols >= 1 /\ a.rows >= 1
        THEN LET g == generatePuzzle(a.cols, a.rows, a.cols, a.rows, a.seed)
             IN  [cols |-> a.cols, rows |-> a.rows,
                  pieceWidth |-> pieceWidth, pieceHeight |-> pieceHeight,
                  pieces |-> [i \in DOMAIN g.pieces |->
                                [g.pieces[i] EXCEPT
                                    !.solvedX = JsTimes(g.pieces[i].col, pieceWidth),
                                    !.solvedY = JsTimes(g.pieces[i].row, pieceHeight),
                                    !.width = pieceWidth, !.height = pieceHeight]],
                  boardWidth |-> a.imageWidth, boardHeight |-> a.imageHeight]
        ELSE [cols |-> a.cols, rows |-> a.rows,
              pieceWidth |-> pieceWidth, pieceHeight |-> pieceHeight,
              pieces |-> << >>,
              boardWidth |-> a.imageWidth, boardHeight |-> a.imageHeight]

\* the numbers tried for the image width and height
GenNumbers == {JsFinite(120), JsFinite(0), JsInfinity, JsNaN}
\* the least cols and rows tried
MinGrid == 0 - 1

GenAnyInit ==
    /\ CanvasIdle /\ LegacyIdle
    /\ gArgs \in [imageWidth : GenNumbers, imageHeight : GenNumbers,
                  cols : MinGrid..2, rows : MinGrid..2, seed : {42}]
    /\ gLayout = NoLayout
    /\ gPrev = << >>

GenerateAny ==
    /\ gLayout = NoLayout
    /\ gLayout' = generatePuzzleAny(gArgs)
    /\ UNCHANGED <<gArgs, gPrev>>
    /\ UNCHANGED canvasVars
    /\ UNCHANGED legacyVars
    /\ UNCHANGED <<saveVars, tabVars>>

NextGenAny == GenerateAny

SpecGenAny == GenAnyInit /\ [][NextGenAny]_vars

EdgeTop == 1
EdgeRight == 2
EdgeBottom == 3
EdgeLeft == 4

(***************************************************************************)
(* Claims about the generator                                              *)
(***************************************************************************)
GenPieces == IF gLayout = NoLayout THEN << >> ELSE gLayout.pieces

Complementary(e, f) ==
    /\ {e.type, f.type} = {"tab", "blank"}
    /\ e.size = f.size
    /\ NumAdd(e.offset, f.offset) = NumOne
    /\ NumAdd(e.tilt, f.tilt) = NumZero

\* C1: in every generated layout the two views of every interior shared edge
\* are complementary: the upper piece's bottom edge and the lower piece's top
\* edge, and the left piece's right edge and the right piece's left edge, have
\* opposite types (one tab, one blank), equal size, offsets that sum to 1 and
\* tilts that sum to 0.
C1_ComplementaryEdges ==
    \A i, j \in DOMAIN GenPieces :
        LET p == GenPieces[i]
            q == GenPieces[j]
        IN  /\ (q.col = p.col /\ q.row = p.row + 1)
                => Complementary(p.edges[EdgeBottom], q.edges[EdgeTop])
            /\ (q.row = p.row /\ q.col = p.col + 1)
                => Complementary(p.edges[EdgeRight], q.edges[EdgeLeft])

\* a generated layout with both a vertical and a horizontal interior edge,
\* whose knobs are off-centre and tilted
C1_Witness ==
    /\ gLayout # NoLayout
    /\ gLayout.cols >= 2 /\ gLayout.rows >= 2
    /\ \E i \in DOMAIN GenPieces :
          /\ GenPieces[i].edges[EdgeBottom].type = "tab"
          /\ GenPieces[i].edges[EdgeBottom].offset # NumHundredths(50)
          /\ GenPieces[i].edges[EdgeBottom].tilt # NumZero
    /\ \E i \in DOMAIN GenPieces : GenPieces[i].edges[EdgeLeft].type = "blank"

\* ======================================================================
\* Canvas engine: src/puzzle/PuzzleCanvas.tsx, src/puzzle/DrawerTray.tsx,
\* src/lib/puzzleSave.ts, src/App.tsx.
\* Positions are whole CSS pixels.  zIndex is left out: it only orders the
\* painting and the hit test, and a pointer can always be put on a visible
\* part of the piece it is meant to hit.
\* ======================================================================
SnapFractionPct == 28
DRAWER_PEEK_HEIGHT == 80
BOARD_PAD_TOP == 6
BOARD_PAD_SIDE == 6
BOARD_PAD_BOTTOM == DRAWER_PEEK_HEIGHT + 4

Min2(a, b) == IF a < b THEN a ELSE b
Max2(a, b) == IF a > b THEN a ELSE b

\* the distance test with twice the limit
Near_Doubled(dx, dy, limit200) ==
    LET d2 == dx * dx + dy * dy
    IN  d2 < 50000 /\ 40000 * d2 < (2 * limit200) * (2 * limit200)

\* Math.sqrt(dx*dx + dy*dy) < limit, the limit given in 1/200 px
Near(dx, dy, limit200) ==
    LET d2 == dx * dx + dy * dy
    IN  d2 < 50000 /\ 40000 * d2 < limit200 * limit200

\* snapDist(piece), in 1/200 px
snapDist(piece) == 2 * Min2(piece.width, piece.height) * SnapFractionPct

\* indices (into board.pieces) of the pieces in the group of piece i
getGroup(b, i) ==
    {j \in DOMAIN b.pieces : b.groups[b.pieces[j].id] = b.groups[b.pieces[i].id]}

mergeGroups(groups, idA, idB) ==
    LET gidA == groups[idA]
        gidB == groups[idB]
    IN  IF gidA = gidB THEN groups
        ELSE [pid \in DOMAIN groups |-> IF groups[pid] = gidB THEN gidA ELSE groups[pid]]

\* checkAndPlaceGroup placing each aligned member on its own
checkAndPlaceGroup_Partial(b, group) ==
    LET aligned(p) == Near(p.x - (b.boardX + p.solvedX), p.y - (b.boardY + p.solvedY),
                           (snapDist(p) * 3) \div 2)
    IN  [j \in DOMAIN b.pieces |->
            IF j \in group /\ aligned(b.pieces[j])
            THEN [b.pieces[j] EXCEPT !.x = b.boardX + b.pieces[j].solvedX,
                                     !.y = b.boardY + b.pieces[j].solvedY,
                                     !.isPlaced = TRUE, !.isSelected = FALSE]
            ELSE b.pieces[j]]

\* the pieces after checkAndPlaceGroup(board, group)
checkAndPlaceGroup(b, group) ==
    LET aligned(p) == Near(p.x - (b.boardX + p.solvedX), p.y - (b.boardY + p.solvedY),
                           (snapDist(p) * 3) \div 2)
    IN  IF \A j \in group : aligned(b.pieces[j])
        THEN [j \in DOMAIN b.pieces |->
                IF j \in group
                THEN [b.pieces[j] EXCEPT !.x = b.boardX + b.pieces[j].solvedX,
                                         !.y = b.boardY + b.pieces[j].solvedY,
                                         !.isPlaced = TRUE, !.isSelected = FALSE]
                ELSE b.pieces[j]]
        ELSE b.pieces

\* the four neighbour relations of trySnap, in the order of the array
Neighbours(piece) ==
    << [dc |-> 1,  dr |-> 0,  dx |-> piece.width,  dy |-> 0],
       [dc |-> -1, dr |-> 0,  dx |-> -piece.width, dy |-> 0],
       [dc |-> 0,  dr |-> 1,  dx |-> 0,            dy |-> piece.height],
       [dc |-> 0,  dr |-> -1, dx |-> 0,            dy |-> -piece.height] >>

PlacedIn(pieces) == Cardinality({k \in DOMAIN pieces : pieces[k].isPlaced})

\* the test in front of onComplete?.()
CompletionReached_OffByOne(placed, total) == placed >= total - 1

CompletionReached(placed, total) == placed = total

\* the snap with the shift given to the released piece alone
SnapTo_PieceOnly(b, i, offsetX, offsetY, cand) ==
    LET moved == [k \in DOMAIN b.pieces |->
                    IF k = i
                    THEN [b.pieces[k] EXCEPT !.x = @ + offsetX, !.y = @ + offsetY,
                                             !.isSelected = FALSE]
                    ELSE b.pieces[k]]
        groups2 == IF cand = 0 THEN b.groups
                   ELSE mergeGroups(b.groups, b.pieces[i].id, b.pieces[cand].id)
        b2 == [b EXCEPT !.pieces = moved, !.groups = groups2]
        b3 == [b2 EXCEPT !.pieces = checkAndPlaceGroup(b2, getGroup(b2, i))]
        placed == PlacedIn(b3.pieces)
    IN  [snapped |-> TRUE, board |-> b3, placed |-> placed,
         complete |-> CompletionReached(placed, Len(b3.pieces))]

\* what both branches of trySnap do once a snap position is found: shift the
\* drag group, merge with the candidate (0: none), place the group if aligned
SnapTo(b, i, offsetX, offsetY, cand) ==
    LET dragGroup == getGroup(b, i)
        moved == [k \in DOMAIN b.pieces |->
                    IF k \in dragGroup
                    THEN [b.pieces[k] EXCEPT !.x = @ + offsetX, !.y = @ + offsetY,
                                             !.isSelected = FALSE]
                    ELSE b.pieces[k]]
        groups2 == IF cand = 0 THEN b.groups
                   ELSE mergeGroups(b.groups, b.pieces[i].id, b.pieces[cand].id)
        b2 == [b EXCEPT !.pieces = moved, !.groups = groups2]
        b3 == [b2 EXCEPT !.pieces = checkAndPlaceGroup(b2, getGroup(b2, i))]
        placed == PlacedIn(b3.pieces)
    IN  [snapped |-> TRUE, board |-> b3, placed |-> placed,
         complete |-> CompletionReached(placed, Len(b3.pieces))]

\* trySnap with the solved-position snap tried before the neighbours
trySnap_SolvedFirst(b, tray, i) ==
    LET piece == b.pieces[i]
        dist == snapDist(piece)
        dragGroup == getGroup(b, i)
        nbs == Neighbours(piece)
        fits(j, n) ==
            /\ piece.col + nbs[n].dc = b.pieces[j].col
            /\ piece.row + nbs[n].dr = b.pieces[j].row
            /\ Near(piece.x - (b.pieces[j].x - nbs[n].dx),
                    piece.y - (b.pieces[j].y - nbs[n].dy), dist)
        cands == {j \in DOMAIN b.pieces :
                    /\ b.pieces[j].id \notin tray
                    /\ j \notin dragGroup
                    /\ ~b.pieces[j].isSelected
                    /\ \E n \in DOMAIN nbs : fits(j, n)}
        tx == b.boardX + piece.solvedX
        ty == b.boardY + piece.solvedY
    IN  IF Near(piece.x - tx, piece.y - ty, dist)
        THEN SnapTo(b, i, tx - piece.x, ty - piece.y, 0)
        ELSE IF cands # {}
        THEN LET j == CHOOSE c \in cands : \A d \in cands : c <= d
                 n == CHOOSE m \in DOMAIN nbs : fits(j, m)
             IN  SnapTo(b, i, (b.pieces[j].x - nbs[n].dx) - piece.x,
                              (b.pieces[j].y - nbs[n].dy) - piece.y, j)
        ELSE [snapped |-> FALSE, board |-> b, placed |-> PlacedIn(b.pieces),
              complete |-> FALSE]

\* trySnap(piece): the result, the board after it and whether onComplete ran
trySnap(b, tray, i) ==
    LET piece == b.pieces[i]
        dist == snapDist(piece)
        dragGroup == getGroup(b, i)
        nbs == Neighbours(piece)
        fits(j, n) ==
            /\ piece.col + nbs[n].dc = b.pieces[j].col
            /\ piece.row + nbs[n].dr = b.pieces[j].row
            /\ Near(piece.x - (b.pieces[j].x - nbs[n].dx),
                    piece.y - (b.pieces[j].y - nbs[n].dy), dist)
        cands == {j \in DOMAIN b.pieces :
                    /\ b.pieces[j].id \notin tray
                    /\ j \notin dragGroup
                    /\ ~b.pieces[j].isSelected
                    /\ \E n \in DOMAIN nbs : fits(j, n)}
        tx == b.boardX + piece.solvedX
        ty == b.boardY + piece.solvedY
    IN  IF cands # {}
        THEN LET j == CHOOSE c \in cands : \A d \in cands : c <= d
                 n == CHOOSE m \in DOMAIN nbs : fits(j, m)
             IN  SnapTo(b, i, (b.pieces[j].x - nbs[n].dx) - piece.x,
                              (b.pieces[j].y - nbs[n].dy) - piece.y, j)
        ELSE IF Near(piece.x - tx, piece.y - ty, dist)
        THEN SnapTo(b, i, tx - piece.x, ty - piece.y, 0)
        ELSE [snapped |-> FALSE, board |-> b, placed |-> PlacedIn(b.pieces),
              complete |-> FALSE]

\* buildBoard(canvasW, canvasH) under the props of the mount
buildBoard(canvasW, canvasH, props) ==
    LET boardMaxW == canvasW - BOARD_PAD_SIDE * 2
        boardMaxH == canvasH - BOARD_PAD_TOP - BOARD_PAD_BOTTOM
        boardW == Min2(boardMaxW, (boardMaxH * props.imageW) \div props.imageH)
        boardH == (boardW * props.imageH) \div props.imageW
        boardX == (canvasW - boardW + 1) \div 2
        boardY == BOARD_PAD_TOP + ((boardMaxH - boardH + 1) \div 2)
        loaded == props.loadedPiecesState
        isRestoring == Len(loaded) > 0
        savedAt(id) == {k \in DOMAIN loaded : loaded[k].id = id}
        piece(i) ==
            LET p == layoutPiece(boardW, boardH, props.cols, props.rows, i)
                at == savedAt(p.id)
            IN  IF isRestoring /\ at # {}
                THEN LET sv == loaded[CHOOSE k \in at : \A m \in at : m <= k]
                     IN  [p EXCEPT !.x = boardX + (sv.fx[1] * boardW) \div sv.fx[2],
                                   !.y = boardY + (sv.fy[1] * boardH) \div sv.fy[2],
                                   !.isPlaced = sv.isPlaced]
                ELSE [p EXCEPT !.x = boardX + p.solvedX, !.y = boardY + p.solvedY,
                               !.isPlaced = FALSE]
        pieces == [i \in 1..(props.cols * props.rows) |-> piece(i)]
        ids == {pieces[i].id : i \in DOMAIN pieces}
        placed == PlacedIn(pieces)
    IN  [board |-> [boardX |-> boardX, boardY |-> boardY, boardW |-> boardW,
                    boardH |-> boardH, pieces |-> pieces,
                    groups |-> [id \in ids |-> id]],
         tray |-> IF isRestoring THEN ids \cap props.loadedTrayIds ELSE ids,
         placed |-> placed,
         completed |-> placed = Len(pieces),
         \* buildBoard has no throw and calls no error callback
         error |-> FALSE]

\* savePuzzle: a fraction is kept as <<numerator, denominator>>
savePuzzle(b, tray, placed, completed) ==
    [piecesState |-> [i \in DOMAIN b.pieces |->
                        [id |-> b.pieces[i].id,
                         fx |-> <<b.pieces[i].x - b.boardX, b.boardW>>,
                         fy |-> <<b.pieces[i].y - b.boardY, b.boardH>>,
                         isPlaced |-> b.pieces[i].isPlaced]],
     trayIds |-> tray, placedCount |-> placed, total |-> Len(b.pieces),
     isCompleted |-> completed]

\* cos and sin of floatingCount * 2.4, in thousandths (at most 4 floating pieces)
CosSinMilli(k) ==
    CASE k = 0 -> <<1000, 0>>
      [] k = 1 -> <<-737, 675>>
      [] k = 2 -> <<87, -996>>
      [] k = 3 -> <<608, 794>>
      [] OTHER -> <<-985, -174>>

\* the position onPieceTap stages piece i at, rounded to whole pixels
stagePosition(b, tray, i) ==
    LET p == b.pieces[i]
        floatingCount == Cardinality({k \in DOMAIN b.pieces :
                            ~b.pieces[k].isPlaced /\ b.pieces[k].id \notin tray})
        cs == CosSinMilli(floatingCount)
        radius == 40 + floatingCount * 28
        tx == (500 * (2 * b.boardX + b.boardW) + cs[1] * radius - 500 * p.width + 500) \div 1000
        ty == (500 * (2 * b.boardY + b.boardH) + cs[2] * radius - 500 * p.height + 500) \div 1000
    IN  <<Max2(b.boardX, Min2(b.boardX + b.boardW - p.width, tx)),
          Max2(b.boardY, Min2(b.boardY + b.boardH - p.height, ty))>>

\* lastPointerYRef.current > window.innerHeight - DRAWER_PEEK_HEIGHT - 10, for a
\* pointer at the centre of a piece whose top is y; the canvas fills the window
inDrawerZone(canvas, p, y) == y + p.height \div 2 > canvas.h - DRAWER_PEEK_HEIGHT - 10

\* ---- the pointer positions tried ----
\* offsets from the solved position in quarters of a piece: on it, within the
\* snap distance, within the placing distance only, and beyond both
DragOffsets == {<<0, 0>>, <<1, 0>>, <<1, 1>>, <<0, 2>>}
\* and two more, within the snap distance of the last; the second within the
\* snap distance of the solved position as well
DragOffsetsWide == DragOffsets \cup {<<1, 2>>, <<0, 1>>}

\* where a pointer over the open tray holds piece i
DrawerSpot(b, canvas, i) ==
    <<b.boardX + b.pieces[i].solvedX, canvas.h - DRAWER_PEEK_HEIGHT - 10>>

DragTargets(b, canvas, i, offsets) ==
    LET p == b.pieces[i]
    IN  {<<b.boardX + p.solvedX + o[1] * (p.width \div 4),
           b.boardY + p.solvedY + o[2] * (p.height \div 4)>> : o \in offsets}
        \cup {DrawerSpot(b, canvas, i)}

\* ---- bounds of the canvas runs ----
MaxCompleteCalls == 2
CanvasA == [w |-> 132, h |-> 210]
CanvasB == [w |-> 252, h |-> 330]

Playing == screen = "puzzle" /\ completeCalls < MaxCompleteCalls

PieceIds(b) == {b.pieces[k].id : k \in DOMAIN b.pieces}
GroupIds(b, group) == {b.pieces[k].id : k \in group}

\* mounting PuzzleCanvas: the first init() of the resize effect
Mount(props, canvas, pointers) ==
    LET r == buildBoard(canvas.w, canvas.h, props)
    IN  /\ cProps = props /\ cCanvas = canvas
        /\ board = r.board /\ trayIds = r.tray
        /\ placedCount = r.placed /\ isComplete = r.completed
        /\ drag = NoDrag /\ lastInDrawer = FALSE /\ completeCalls = 0
        /\ saved = NoSave /\ atSave = NoAtSave
        /\ screen = "puzzle" /\ trayPress = [ptr \in pointers |-> 0]

FreshProps(cols, rows) ==
    [cols |-> cols, rows |-> rows, imageW |-> cols * 100, imageH |-> rows * 100,
     loadedPiecesState |-> << >>, loadedTrayIds |-> {}]

GenIdle ==
    gArgs = [cols |-> 0] /\ gLayout = NoLayout /\ gPrev = << >> /\ LegacyIdle /\ SaveIdle

\* onCanvasPointerDown with the pointer on the middle of piece i
onCanvasPointerDown(i) ==
    /\ Playing
    /\ drag = NoDrag
    /\ i \in DOMAIN board.pieces
    /\ board.pieces[i].id \notin trayIds
    /\ ~board.pieces[i].isPlaced
    /\ LET hitGroup == getGroup(board, i)
       IN  board' = [board EXCEPT !.pieces =
                        [k \in DOMAIN board.pieces |->
                            IF k \in hitGroup
                            THEN [board.pieces[k] EXCEPT !.isSelected = (k = i),
                                                         !.isPlaced = FALSE]
                            ELSE board.pieces[k]]]
    /\ drag' = [piece |-> i, fromTray |-> FALSE]
    /\ lastInDrawer' = inDrawerZone(cCanvas, board.pieces[i], board.pieces[i].y)
    /\ UNCHANGED <<tabVars, saveVars, legacyVars, genVars, cProps, cCanvas, trayIds, isComplete, placedCount,
                   completeCalls, saved, atSave, screen, trayPress>>

\* handlePointerMove: the pointer takes the dragged piece to a position t
handlePointerMove(offsets) ==
    /\ Playing
    /\ drag # NoDrag
    /\ \E t \in DragTargets(board, cCanvas, drag.piece, offsets) :
         LET i == drag.piece
             ddx == t[1] - board.pieces[i].x
             ddy == t[2] - board.pieces[i].y
             group == getGroup(board, i)
         IN  /\ board' = [board EXCEPT !.pieces =
                            [k \in DOMAIN board.pieces |->
                                IF k = i THEN [board.pieces[k] EXCEPT !.x = t[1], !.y = t[2]]
                                ELSE IF k \in group /\ (ddx # 0 \/ ddy # 0)
                                THEN [board.pieces[k] EXCEPT !.x = @ + ddx, !.y = @ + ddy]
                                ELSE board.pieces[k]]]
             /\ lastInDrawer' = inDrawerZone(cCanvas, board.pieces[i], t[2])
    /\ UNCHANGED <<tabVars, saveVars, legacyVars, genVars, cProps, cCanvas, trayIds, drag, isComplete,
                   placedCount, completeCalls, saved, atSave, screen, trayPress>>

\* the test of the drawer zone alone
returnsToTray_AnyGroup(inZone, dragGroup) == inZone

\* handlePointerUp, inDrawerZone && dragGroup.length === 1
returnsToTray(inZone, dragGroup) == inZone /\ Cardinality(dragGroup) = 1

\* handlePointerUp: trySnap, then the tray or the board
handlePointerUp ==
    /\ Playing
    /\ drag # NoDrag
    /\ LET i == drag.piece
           b1 == [board EXCEPT !.pieces[i].isSelected = FALSE]
           dragGroup == getGroup(b1, i)
           r == trySnap(b1, trayIds, i)
       IN  IF r.snapped
           THEN /\ board' = r.board
                /\ trayIds' = trayIds \ GroupIds(b1, dragGroup)
                /\ placedCount' = r.placed
                /\ isComplete' = (isComplete \/ r.complete)
                /\ completeCalls' = completeCalls + (IF r.complete THEN 1 ELSE 0)
           ELSE IF returnsToTray(lastInDrawer, dragGroup)
           THEN /\ board' = [b1 EXCEPT !.pieces[i].isPlaced = FALSE]
                /\ trayIds' = trayIds \cup {b1.pieces[i].id}
                /\ UNCHANGED <<placedCount, isComplete, completeCalls>>
           ELSE /\ board' = [b1 EXCEPT !.pieces =
                               [k \in DOMAIN b1.pieces |->
                                   IF k \in dragGroup
                                   THEN [b1.pieces[k] EXCEPT !.isPlaced = FALSE,
                                                             !.isSelected = FALSE]
                                   ELSE b1.pieces[k]]]
                /\ UNCHANGED <<trayIds, placedCount, isComplete, completeCalls>>
    /\ drag' = NoDrag
    /\ UNCHANGED <<tabVars, saveVars, legacyVars, genVars, cProps, cCanvas, lastInDrawer, saved, atSave,
                   screen, trayPress>>

\* DrawerTray onTrayPiecePointerDown, pointer ptr on a piece the tray shows:
\* the gesture stays pending, with its window listeners, until it is decided
onTrayPiecePointerDown(ptr, i) ==
    /\ Playing
    /\ trayPress[ptr] = 0
    /\ i \in DOMAIN board.pieces
    /\ board.pieces[i].id \in trayIds
    /\ trayPress' = [trayPress EXCEPT ![ptr] = i]
    /\ UNCHANGED <<tabVars, saveVars, legacyVars, genVars, cProps, cCanvas, board, trayIds, drag, lastInDrawer,
                   isComplete, placedCount, completeCalls, saved, atSave, screen>>

\* the pending gesture of ptr moves far enough: onPieceLiftFromDrawer
onPieceLiftFromDrawer(ptr) ==
    /\ Playing
    /\ trayPress[ptr] # 0
    /\ trayPress' = [trayPress EXCEPT ![ptr] = 0]
    /\ IF drag # NoDrag
       THEN UNCHANGED <<board, trayIds, drag, lastInDrawer>>
       ELSE LET i == trayPress[ptr]
                t == DrawerSpot(board, cCanvas, i)
            IN  /\ board' = [board EXCEPT !.pieces[i] =
                                [@ EXCEPT !.x = t[1], !.y = t[2],
                                          !.isSelected = TRUE, !.isPlaced = FALSE]]
                /\ drag' = [piece |-> i, fromTray |-> TRUE]
                /\ trayIds' = trayIds \ {board.pieces[i].id}
                /\ lastInDrawer' = inDrawerZone(cCanvas, board.pieces[i], t[2])
    /\ UNCHANGED <<tabVars, saveVars, legacyVars, genVars, cProps, cCanvas, isComplete, placedCount,
                   completeCalls, saved, atSave, screen>>

\* the pending gesture of ptr ends as a tap: onPieceTap
onPieceTap(ptr) ==
    /\ Playing
    /\ trayPress[ptr] # 0
    /\ trayPress' = [trayPress EXCEPT ![ptr] = 0]
    /\ LET i == trayPress[ptr]
           t == stagePosition(board, trayIds, i)
       IN  /\ board' = [board EXCEPT !.pieces[i] =
                           [@ EXCEPT !.x = t[1], !.y = t[2],
                                     !.isPlaced = FALSE, !.isSelected = FALSE]]
           /\ trayIds' = trayIds \ {board.pieces[i].id}
    /\ UNCHANGED <<tabVars, saveVars, legacyVars, genVars, cProps, cCanvas, drag, lastInDrawer, isComplete,
                   placedCount, completeCalls, saved, atSave, screen>>

\* the pending gesture of ptr is given up as a scroll of the tray
onTrayScroll(ptr) ==
    /\ Playing
    /\ trayPress[ptr] # 0
    /\ trayPress' = [trayPress EXCEPT ![ptr] = 0]
    /\ UNCHANGED <<tabVars, saveVars, legacyVars, genVars, cProps, cCanvas, board, trayIds, drag, lastInDrawer,
                   isComplete, placedCount, completeCalls, saved, atSave, screen>>

\* ---- one fresh session on a 3 x 1 puzzle, the canvas size fixed ----
CanvasInit == GenIdle /\ Mount(FreshProps(3, 1), CanvasA, {1})

NextCanvas ==
    \/ \E i \in 1..3 : onCanvasPointerDown(i)
    \/ handlePointerMove(DragOffsetsWide)
    \/ handlePointerUp
    \/ \E ptr \in DOMAIN trayPress, i \in 1..3 : onTrayPiecePointerDown(ptr, i)
    \/ \E ptr \in DOMAIN trayPress : onPieceLiftFromDrawer(ptr)
    \/ \E ptr \in DOMAIN trayPress : onPieceTap(ptr)
    \/ \E ptr \in DOMAIN trayPress : onTrayScroll(ptr)

SpecCanvas == CanvasInit /\ [][NextCanvas]_vars

\* ---- rotation of the device, leaving and resuming ----
CanvasSizes == {CanvasA, CanvasB}

\* the ResizeObserver callback: a new init() when the width moved by more than 4
Resize ==
    /\ Playing
    /\ \E c \in CanvasSizes \ {cCanvas} :
         IF (c.w - cCanvas.w > 4) \/ (cCanvas.w - c.w > 4)
         THEN LET r == buildBoard(c.w, c.h, cProps)
              IN  /\ cCanvas' = c
                  /\ board' = r.board /\ trayIds' = r.tray
                  /\ placedCount' = r.placed /\ isComplete' = r.completed
                  /\ drag' = NoDrag
         ELSE UNCHANGED <<cCanvas, board, trayIds, placedCount, isComplete, drag>>
    /\ UNCHANGED <<tabVars, saveVars, legacyVars, genVars, cProps, lastInDrawer, completeCalls, saved, atSave,
                   screen, trayPress>>

\* App.tsx handleBack: the save trigger, then the landing screen
handleBack ==
    /\ Playing
    /\ saved' = savePuzzle(board, trayIds, placedCount, isComplete)
    /\ atSave' = [groups |-> board.groups, boardW |-> board.boardW, boardH |-> board.boardH]
    /\ screen' = "landing"
    /\ board' = NoBoard /\ trayIds' = {} /\ drag' = NoDrag /\ lastInDrawer' = FALSE
    /\ placedCount' = 0 /\ isComplete' = FALSE
    /\ trayPress' = [ptr \in DOMAIN trayPress |-> 0]
    /\ UNCHANGED <<tabVars, saveVars, legacyVars, genVars, cProps, cCanvas, completeCalls>>

\* App.tsx onResumePuzzle: PuzzleCanvas is mounted again with the saved state
onResumePuzzle ==
    /\ screen = "landing"
    /\ saved # NoSave
    /\ \E c \in CanvasSizes :
         LET props == [cProps EXCEPT !.loadedPiecesState = saved.piecesState,
                                     !.loadedTrayIds = saved.trayIds]
             r == buildBoard(c.w, c.h, props)
         IN  /\ cProps' = props /\ cCanvas' = c
             /\ board' = r.board /\ trayIds' = r.tray
             /\ placedCount' = r.placed /\ isComplete' = r.completed
    /\ screen' = "puzzle"
    /\ completeCalls' = 0
    /\ UNCHANGED <<tabVars, saveVars, legacyVars, genVars, drag, lastInDrawer, saved, atSave, trayPress>>

\* ---- a fresh 2 x 1 session with two fingers on the tray ----
TouchInit == GenIdle /\ Mount(FreshProps(2, 1), CanvasA, {1, 2})

NextTouch ==
    \/ \E i \in 1..2 : onCanvasPointerDown(i)
    \/ handlePointerMove(DragOffsets)
    \/ handlePointerUp
    \/ \E ptr \in DOMAIN trayPress, i \in 1..2 : onTrayPiecePointerDown(ptr, i)
    \/ \E ptr \in DOMAIN trayPress : onPieceLiftFromDrawer(ptr)
    \/ \E ptr \in DOMAIN trayPress : onPieceTap(ptr)
    \/ \E ptr \in DOMAIN trayPress : onTrayScroll(ptr)

SpecTouch == TouchInit /\ [][NextTouch]_vars

\* ---- a fresh 2 x 1 session in which the device is rotated ----
ResizeInit == GenIdle /\ \E c \in CanvasSizes : Mount(FreshProps(2, 1), c, {1})

NextResize ==
    \/ \E i \in 1..2 : onCanvasPointerDown(i)
    \/ handlePointerMove(DragOffsets)
    \/ handlePointerUp
    \/ \E ptr \in DOMAIN trayPress, i \in 1..2 : onTrayPiecePointerDown(ptr, i)
    \/ \E ptr \in DOMAIN trayPress : onPieceLiftFromDrawer(ptr)
    \/ \E ptr \in DOMAIN trayPress : onPieceTap(ptr)
    \/ \E ptr \in DOMAIN trayPress : onTrayScroll(ptr)
    \/ Resize

SpecResize == ResizeInit /\ [][NextResize]_vars

\* ---- a 2 x 1 session that is left and resumed ----
RestoreInit == GenIdle /\ Mount(FreshProps(2, 1), CanvasA, {1})

NextRestore ==
    \/ \E i \in 1..2 : onCanvasPointerDown(i)
    \/ handlePointerMove(DragOffsets)
    \/ handlePointerUp
    \/ \E ptr \in DOMAIN trayPress, i \in 1..2 : onTrayPiecePointerDown(ptr, i)
    \/ \E ptr \in DOMAIN trayPress : onPieceLiftFromDrawer(ptr)
    \/ handleBack
    \/ onResumePuzzle

SpecRestore == RestoreInit /\ [][NextRestore]_vars

\* ---- resuming a record of the store ----
\* where a piece of a stored game was when the game was saved
StoredPlaces == {"placed", "floating", "tray"}

\* the record savePuzzle wrote for a cols x 1 game on CanvasA, piece i being at
\* places[i]
StoredRecord(cols, places) ==
    LET fresh == buildBoard(CanvasA.w, CanvasA.h, FreshProps(cols, 1)).board
        pieces == [i \in DOMAIN fresh.pieces |->
                     IF places[i] = "placed"
                     THEN [fresh.pieces[i] EXCEPT !.isPlaced = TRUE]
                     ELSE IF places[i] = "floating"
                     THEN [fresh.pieces[i] EXCEPT
                              !.y = fresh.boardY + fresh.pieces[i].solvedY
                                    + fresh.pieces[i].height \div 2]
                     ELSE fresh.pieces[i]]
        b == [fresh EXCEPT !.pieces = pieces]
    IN  savePuzzle(b, {pieces[i].id : i \in {k \in DOMAIN pieces : places[k] = "tray"}},
                   PlacedIn(pieces), PlacedIn(pieces) = Len(pieces))

\* App.tsx onResumePuzzle for a record of the store: cols and rows are the
\* record's own fields, piecesState and trayIds what it holds beside them
LoadProps(cols, rec) ==
    [cols |-> cols, rows |-> 1, imageW |-> cols * 100, imageH |-> 100,
     loadedPiecesState |-> rec.piecesState, loadedTrayIds |-> rec.trayIds]

LoadInit ==
    /\ GenIdle
    /\ \E cols \in 1..MaxGrid, stored \in 1..MaxGrid :
          \E places \in [1..stored -> StoredPlaces] :
              Mount(LoadProps(cols, StoredRecord(stored, places)), CanvasA, {1})

NextLoad ==
    \/ \E i \in 1..MaxGrid : onCanvasPointerDown(i)
    \/ handlePointerMove({<<0, 0>>})
    \/ handlePointerUp

SpecLoad == LoadInit /\ [][NextLoad]_vars

\* ---- C2 ----
PlacedUntouched ==
    \A i \in DOMAIN board.pieces :
        board.pieces[i].isPlaced =>
            /\ board'.pieces[i].isPlaced
            /\ board'.pieces[i].x = board.pieces[i].x
            /\ board'.pieces[i].y = board.pieces[i].y

NoPlacedPieceInDrag ==
    drag # NoDrag => \A k \in getGroup(board, drag.piece) : ~board.pieces[k].isPlaced

\* C2: once a piece has isPlaced = TRUE, no canvas pointer-down, drag-move,
\* drag-release, tray-lift or tray-tap changes its x or y or sets isPlaced back
\* to FALSE, and no placed piece is ever part of the group being dragged.
C2_PlacedPieceFixed == [](NoPlacedPieceInDrag) /\ [][PlacedUntouched]_vars

\* ---- C6 ----
AllPlaced(b) ==
    /\ Len(b.pieces) = cProps.cols * cProps.rows
    /\ \A k \in DOMAIN b.pieces : b.pieces[k].isPlaced

OneGroup(b) == \A i, j \in DOMAIN b.groups : b.groups[i] = b.groups[j]

\* C6 as stated: onComplete is invoked only in a state in which all cols*rows
\* pieces belong to one single group and every piece of it is placed.
C6_CompleteOnlyInOneGroup ==
    [][completeCalls' # completeCalls => AllPlaced(board') /\ OneGroup(board')]_vars

\* C6 as the code has it: onComplete is invoked only in a state in which every
\* one of the cols*rows pieces is placed; the pieces may still be partitioned
\* into several groups.
C6_CompleteOnlyWhenAllPlaced ==
    [][completeCalls' # completeCalls => AllPlaced(board')]_vars

C6_Witness ==
    /\ completeCalls = 1 /\ isComplete /\ AllPlaced(board)
    /\ ~OneGroup(board)

\* ---- C7 ----
\* C7: onComplete is invoked exactly once in a session: at the drag release
\* whose snap places the last piece, not before it, and not again on any later
\* event, a rebuild of the board included.
C7_CompleteExactlyOnce ==
    [][completeCalls' # completeCalls =>
          /\ completeCalls = 0 /\ completeCalls' = 1
          /\ drag # NoDrag /\ drag' = NoDrag
          /\ AllPlaced(board')]_vars

\* ---- C8 ----
SamePartition(g, h) ==
    /\ DOMAIN g = DOMAIN h
    /\ \A i, j \in DOMAIN g : (g[i] = g[j]) <=> (h[i] = h[j])

\* C8: the board rebuilt from a saved record, at the board size of the save,
\* has the group partition the board had when it was saved.
C8_RestoreKeepsPartition ==
    [][(screen = "landing" /\ screen' = "puzzle"
        /\ board'.boardW = atSave.boardW /\ board'.boardH = atSave.boardH)
       => SamePartition(atSave.groups, board'.groups)]_vars

\* ---- C9 ----
\* C9: two pieces that are in the same group stay in the same group after
\* every event PuzzleCanvas handles, a rebuild after a resize included.
C9_GroupsNeverSplit ==
    [][\A i, j \in DOMAIN board.groups :
          board.groups[i] = board.groups[j] => board'.groups[i] = board'.groups[j]]_vars

\* ======================================================================
\* Legacy engine: src/lib/puzzle.ts (trySnap, trySnapToGuide),
\* src/pages/Auth.tsx (PuzzleGame) and src/components/puzzle/PuzzleBoard.tsx.
\* ======================================================================
null == 0 - 1
PUZZLE_ORIGIN == [x |-> 800, y |-> 800]

\* the pieces splitImage pushes, before its shuffle; the image gives every
\* piece a 100 x 100 cell with a margin of 10 for the tabs
splitImage(cols, rows) ==
    [k \in 1..(rows * cols) |->
        [id |-> k - 1, row |-> (k - 1) \div cols, col |-> (k - 1) % cols,
         displayWidth |-> 120, displayHeight |-> 120, offsetX |-> 10, offsetY |-> 10,
         x |-> null, y |-> null, groupId |-> k - 1, locked |-> FALSE]]

cellW(pieces) == pieces[1].displayWidth - 2 * pieces[1].offsetX
cellH(pieces) == pieces[1].displayHeight - 2 * pieces[1].offsetY

\* ten times Math.max(8, Math.min(cellW, cellH) * 0.10)
threshold10(pieces) == Max2(80, Min2(cellW(pieces), cellH(pieces)))

\* the test with the threshold itself let through
WithinThreshold_Inclusive(dx, dy, t10) == 100 * (dx * dx + dy * dy) <= t10 * t10

\* Math.sqrt(dx*dx + dy*dy) < threshold
WithinThreshold(dx, dy, t10) == 100 * (dx * dx + dy * dy) < t10 * t10

groupLocked(pieces, gid) ==
    \E k \in DOMAIN pieces : pieces[k].groupId = gid /\ pieces[k].locked

ShiftNonNull(v, d) == IF v # null THEN v + d ELSE v

\* trySnap, both groups locked: relabel the group of b, move nothing
MergeBothLocked_Shift(u, i, j) ==
    [k \in DOMAIN u |->
        IF u[k].groupId = u[j].groupId
        THEN [u[k] EXCEPT !.groupId = u[i].groupId,
                          !.x = ShiftNonNull(@, (u[i].x + (u[j].col - u[i].col) * cellW(u)) - u[j].x),
                          !.y = ShiftNonNull(@, (u[i].y + (u[j].row - u[i].row) * cellH(u)) - u[j].y)]
        ELSE u[k]]

MergeBothLocked(u, i, j) ==
    [k \in DOMAIN u |->
        IF u[k].groupId = u[j].groupId
        THEN [u[k] EXCEPT !.groupId = u[i].groupId]
        ELSE u[k]]

\* the default with the relabelling alone
MergeDefault_NoShift(u, i, j, aLocked) ==
    [k \in DOMAIN u |->
        IF u[k].groupId = u[j].groupId
        THEN [u[k] EXCEPT !.groupId = u[i].groupId,
                          !.locked = IF aLocked THEN TRUE ELSE @]
        ELSE u[k]]

\* trySnap, the default branch: the group of b moves to a
MergeDefault(u, i, j, aLocked) ==
    LET shiftX == (u[i].x + (u[j].col - u[i].col) * cellW(u)) - u[j].x
        shiftY == (u[i].y + (u[j].row - u[i].row) * cellH(u)) - u[j].y
    IN  [k \in DOMAIN u |->
            IF u[k].groupId = u[j].groupId
            THEN [u[k] EXCEPT !.groupId = u[i].groupId,
                              !.x = ShiftNonNull(@, shiftX),
                              !.y = ShiftNonNull(@, shiftY),
                              !.locked = IF aLocked THEN TRUE ELSE @]
            ELSE u[k]]

\* trySnap, b locked and a not: the group of a moves to b
MergeIntoLockedB_MoveB(u, i, j) == MergeDefault(u, i, j, TRUE)

MergeIntoLockedB(u, i, j) ==
    LET shiftX == (u[j].x - (u[j].col - u[i].col) * cellW(u)) - u[i].x
        shiftY == (u[j].y - (u[j].row - u[i].row) * cellH(u)) - u[i].y
    IN  [k \in DOMAIN u |->
            IF u[k].groupId = u[i].groupId
            THEN [u[k] EXCEPT !.groupId = u[j].groupId,
                              !.x = ShiftNonNull(@, shiftX),
                              !.y = ShiftNonNull(@, shiftY),
                              !.locked = TRUE]
            ELSE u[k]]

\* the unlocked default, with the roles of a and b exchanged
MergeUnlocked_MoveA(u, i, j) ==
    LET shiftX == (u[j].x - (u[j].col - u[i].col) * cellW(u)) - u[i].x
        shiftY == (u[j].y - (u[j].row - u[i].row) * cellH(u)) - u[i].y
    IN  [k \in DOMAIN u |->
            IF u[k].groupId = u[i].groupId
            THEN [u[k] EXCEPT !.groupId = u[j].groupId,
                              !.x = ShiftNonNull(@, shiftX),
                              !.y = ShiftNonNull(@, shiftY)]
            ELSE u[k]]

\* the unlocked default taking piece b alone out of its group
MergeUnlocked_PieceOnly(u, i, j) ==
    [u EXCEPT ![j] = [@ EXCEPT !.groupId = u[i].groupId,
                               !.x = u[i].x + (u[j].col - u[i].col) * cellW(u),
                               !.y = u[i].y + (u[j].row - u[i].row) * cellH(u)]]

MergeUnlocked(u, i, j) == MergeDefault(u, i, j, FALSE)

\* the tests without the one for cells next to each other
SnapsPair_AnyCells(u, i, j) ==
    /\ u[i].x # null /\ u[i].y # null
    /\ u[j].x # null /\ u[j].y # null
    /\ u[i].groupId # u[j].groupId
    /\ WithinThreshold(u[j].x - (u[i].x + (u[j].col - u[i].col) * cellW(u)),
                       u[j].y - (u[i].y + (u[j].row - u[i].row) * cellH(u)), threshold10(u))

\* whether the pair (i, j) passes the tests in front of the merge
SnapsPair(u, i, j) ==
    /\ u[i].x # null /\ u[i].y # null
    /\ u[j].x # null /\ u[j].y # null
    /\ u[i].groupId # u[j].groupId
    /\ LET dr == u[j].row - u[i].row
           dc == u[j].col - u[i].col
       IN  /\ (IF dr < 0 THEN -dr ELSE dr) + (IF dc < 0 THEN -dc ELSE dc) = 1
           /\ WithinThreshold(u[j].x - (u[i].x + dc * cellW(u)),
                              u[j].y - (u[i].y + dr * cellH(u)), threshold10(u))

\* the body of the inner loop for a pair that snaps
MergePair(u, i, j) ==
    LET aLocked == groupLocked(u, u[i].groupId)
        bLocked == groupLocked(u, u[j].groupId)
    IN  IF aLocked /\ bLocked THEN MergeBothLocked(u, i, j)
        ELSE IF bLocked /\ ~aLocked THEN MergeIntoLockedB(u, i, j)
        ELSE IF aLocked THEN MergeDefault(u, i, j, TRUE)
        ELSE MergeUnlocked(u, i, j)

\* the loops of trySnap ending after one pass over the pairs
RECURSIVE snapScan_OnePass(_, _, _, _, _)
snapScan_OnePass(u, i, j, changed, res) ==
    IF i > Len(u)
    THEN [pieces |-> u, snapped |-> res.snapped,
          snappedGroupId |-> res.snappedGroupId,
          passes |-> res.passes, log |-> res.log]
    ELSE IF j > Len(u) THEN snapScan_OnePass(u, i + 1, i + 2, changed, res)
    ELSE IF SnapsPair(u, i, j)
    THEN LET v == MergePair(u, i, j)
         IN  snapScan_OnePass(v, i, j + 1, TRUE,
                      [snapped |-> TRUE, snappedGroupId |-> v[i].groupId,
                       passes |-> res.passes,
                       log |-> Append(res.log,
                                  [i |-> i, j |-> j, pass |-> res.passes,
                                   aLocked |-> groupLocked(u, u[i].groupId),
                                   bLocked |-> groupLocked(u, u[j].groupId),
                                   before |-> u, after |-> v])])
    ELSE snapScan_OnePass(u, i, j + 1, changed, res)

\* while (changed) has no bound of its own; the evaluation is cut after
\* MaxPasses passes, more than any board of the specifications has groups, so
\* that a loop that would not end shows as a count of passes at the cut
MaxPasses == 6

\* the loops of trySnap from pair (i, j) on; log collects the merges and
\* passes counts the runs of the body of while (changed)
RECURSIVE snapScan(_, _, _, _, _)
snapScan(u, i, j, changed, res) ==
    IF i > Len(u)
    THEN IF changed /\ res.passes < MaxPasses
         THEN snapScan(u, 1, 2, FALSE, [res EXCEPT !.passes = @ + 1])
         ELSE [pieces |-> u, snapped |-> res.snapped,
               snappedGroupId |-> res.snappedGroupId,
               passes |-> res.passes, log |-> res.log]
    ELSE IF j > Len(u) THEN snapScan(u, i + 1, i + 2, changed, res)
    ELSE IF SnapsPair(u, i, j)
    THEN LET v == MergePair(u, i, j)
         IN  snapScan(v, i, j + 1, TRUE,
                      [snapped |-> TRUE, snappedGroupId |-> v[i].groupId,
                       passes |-> res.passes,
                       log |-> Append(res.log,
                                  [i |-> i, j |-> j, pass |-> res.passes,
                                   aLocked |-> groupLocked(u, u[i].groupId),
                                   bLocked |-> groupLocked(u, u[j].groupId),
                                   before |-> u, after |-> v])])
    ELSE snapScan(u, i, j + 1, changed, res)

\* lib/puzzle.ts trySnap
legacyTrySnap(pieces) ==
    IF Len(pieces) < 2
    THEN [pieces |-> pieces, snapped |-> FALSE, snappedGroupId |-> null,
          passes |-> 0, log |-> << >>]
    ELSE snapScan(pieces, 1, 2, FALSE,
                  [snapped |-> FALSE, snappedGroupId |-> null,
                   passes |-> 1, log |-> << >>])

\* the guide position of a piece, without the margin of the tabs
correctX_NoOffset(pieces, p) == PUZZLE_ORIGIN.x + p.col * cellW(pieces)

\* the guide position of a piece
correctX(pieces, p) == PUZZLE_ORIGIN.x - pieces[1].offsetX + p.col * cellW(pieces)
correctY(pieces, p) == PUZZLE_ORIGIN.y - pieces[1].offsetY + p.row * cellH(pieces)

\* the test for a border piece passed by every group
hasEdgePiece_Always(pieces, gid, cols, rows) == TRUE

\* trySnapToGuide, hasEdgePiece: some piece of the group lies in a border cell
hasEdgePiece(pieces, gid, cols, rows) ==
    \E k \in {n \in DOMAIN pieces : pieces[n].groupId = gid} :
        \/ pieces[k].row = 0 \/ pieces[k].row = rows - 1
        \/ pieces[k].col = 0 \/ pieces[k].col = cols - 1

\* lib/puzzle.ts trySnapToGuide; the groups do not touch each other's pieces,
\* so each group is worked out on its own
trySnapToGuide(pieces, cols, rows) ==
    LET members(gid) == {k \in DOMAIN pieces : pieces[k].groupId = gid}
        first(S) == CHOOSE k \in S : \A m \in S : k <= m
        last(S) == CHOOSE k \in S : \A m \in S : m <= k
        close(gid) ==
            {k \in members(gid) :
                /\ pieces[k].x # null /\ pieces[k].y # null
                /\ WithinThreshold(pieces[k].x - correctX(pieces, pieces[k]),
                                   pieces[k].y - correctY(pieces, pieces[k]),
                                   threshold10(pieces))}
        snaps(gid) ==
            /\ ~pieces[first(members(gid))].locked
            /\ hasEdgePiece(pieces, gid, cols, rows)
            /\ close(gid) # {}
        shifted(k) ==
            LET q == pieces[first(close(pieces[k].groupId))]
            IN  [pieces[k] EXCEPT !.x = ShiftNonNull(@, correctX(pieces, q) - q.x),
                                  !.y = ShiftNonNull(@, correctY(pieces, q) - q.y),
                                  !.locked = TRUE]
        \* the groups in the order of the Map: by first occurrence in the array
        snapping == {k \in DOMAIN pieces :
                        k = first(members(pieces[k].groupId)) /\ snaps(pieces[k].groupId)}
    IN  IF Len(pieces) = 0
        THEN [pieces |-> pieces, snapped |-> FALSE, snappedGroupId |-> null]
        ELSE [pieces |-> [k \in DOMAIN pieces |->
                            IF snaps(pieces[k].groupId) THEN shifted(k) ELSE pieces[k]],
              snapped |-> snapping # {},
              snappedGroupId |-> IF snapping = {} THEN null
                                 ELSE pieces[last(snapping)].groupId]

\* ---- the positions tried ----
\* the places Math.random puts a piece sent to the board: two of them a cell
\* and 6 px apart
SendSpots == {<<50, 50>>, <<156, 50>>}

\* where a drag can take board piece k: as far from its guide position as
\* Jitter says, and to the places a piece can be sent to, the second of which is
\* next to the first within the threshold
DropTargets(pieces, k, Jitter) ==
    {<<correctX(pieces, pieces[k]) + d[1], correctY(pieces, pieces[k]) + d[2]>> : d \in Jitter}
        \cup SendSpots

IndexOfId(pieces, id) == {k \in DOMAIN pieces : pieces[k].id = id}

\* the subsequence of seq at the indices in keep, in order
RECURSIVE FilterSeq(_, _)
FilterSeq(seq, keep) ==
    IF seq = << >> THEN << >>
    ELSE LET rest == FilterSeq(Tail(seq), {k - 1 : k \in keep \ {1}})
         IN  IF 1 \in keep THEN <<Head(seq)>> \o rest ELSE rest

\* sendToBoard with the tray left as it was
sendToBoard_KeepsTray(sel, spot) ==
    /\ dragging = NoDragging
    /\ sel # {}
    /\ sel \subseteq DOMAIN trayPieces
    /\ LET placed == [k \in DOMAIN trayPieces |->
                        [trayPieces[k] EXCEPT !.x = spot[k][1], !.y = spot[k][2]]]
       IN  /\ boardPieces' = boardPieces \o FilterSeq(placed, sel)
           /\ trayPieces' = trayPieces
    /\ dragging' = dragging /\ snapLog' = NoSnapLog
    /\ UNCHANGED <<genVars, canvasVars, saveVars, tabVars>>

\* Auth.tsx sendToBoard with the pieces at tray indices sel selected; spot gives
\* the random place of each.  One pointer is at work: the button is not pressed
\* in the middle of a drag
sendToBoard(sel, spot) ==
    /\ dragging = NoDragging
    /\ sel # {}
    /\ sel \subseteq DOMAIN trayPieces
    /\ LET placed == [k \in DOMAIN trayPieces |->
                        [trayPieces[k] EXCEPT !.x = spot[k][1], !.y = spot[k][2]]]
       IN  /\ boardPieces' = boardPieces \o FilterSeq(placed, sel)
           /\ trayPieces' = FilterSeq(trayPieces, DOMAIN trayPieces \ sel)
    /\ dragging' = dragging /\ snapLog' = NoSnapLog
    /\ UNCHANGED <<genVars, canvasVars, saveVars, tabVars>>

\* Auth.tsx clearStrayPieces
clearStrayPieces ==
    LET count(gid) == Cardinality({k \in DOMAIN boardPieces : boardPieces[k].groupId = gid})
        solos == {k \in DOMAIN boardPieces : count(boardPieces[k].groupId) = 1}
        returned == [k \in DOMAIN boardPieces |->
                        [boardPieces[k] EXCEPT !.x = null, !.y = null,
                                               !.groupId = boardPieces[k].id]]
    IN  /\ dragging = NoDragging
        /\ boardPieces # << >>
        /\ IF solos = {}
           THEN UNCHANGED <<boardPieces, trayPieces>>
           ELSE /\ trayPieces' = trayPieces \o FilterSeq(returned, solos)
                /\ boardPieces' = FilterSeq(boardPieces, DOMAIN boardPieces \ solos)
        /\ dragging' = dragging /\ snapLog' = NoSnapLog
        /\ UNCHANGED <<genVars, canvasVars, saveVars, tabVars>>

\* PuzzleBoard.tsx handlePointerDown on board piece k
boardPointerDown(k) ==
    /\ k \in DOMAIN boardPieces
    /\ ~boardPieces[k].locked
    /\ boardPieces[k].x # null /\ boardPieces[k].y # null
    /\ ~groupLocked(boardPieces, boardPieces[k].groupId)
    /\ dragging' = [id |-> boardPieces[k].id, groupId |-> boardPieces[k].groupId]
    /\ snapLog' = NoSnapLog
    /\ UNCHANGED <<boardPieces, trayPieces>>
    /\ UNCHANGED <<genVars, canvasVars, saveVars, tabVars>>

\* updateGroupPosition without its test for a locked group
updateGroupPosition_NoLockTest(prev, groupId, dx, dy) ==
    [k \in DOMAIN prev |->
        IF prev[k].groupId = groupId /\ prev[k].x # null /\ prev[k].y # null
        THEN [prev[k] EXCEPT !.x = @ + dx, !.y = @ + dy]
        ELSE prev[k]]

\* Auth.tsx updateGroupPosition
updateGroupPosition(prev, groupId, dx, dy) ==
    IF groupLocked(prev, groupId) THEN prev
    ELSE [k \in DOMAIN prev |->
            IF prev[k].groupId = groupId /\ prev[k].x # null /\ prev[k].y # null
            THEN [prev[k] EXCEPT !.x = @ + dx, !.y = @ + dy]
            ELSE prev[k]]

\* PuzzleBoard.tsx handlePointerMove: the pointer takes the dragged piece to t
boardPointerMove(Jitter) ==
    /\ dragging # NoDragging
    /\ \E k \in IndexOfId(boardPieces, dragging.id) :
       \E t \in DropTargets(boardPieces, k, Jitter) :
          boardPieces' = updateGroupPosition(boardPieces, dragging.groupId,
                                             t[1] - boardPieces[k].x, t[2] - boardPieces[k].y)
    /\ snapLog' = NoSnapLog
    /\ UNCHANGED <<trayPieces, dragging>>
    /\ UNCHANGED <<genVars, canvasVars, saveVars, tabVars>>

\* Auth.tsx handlePieceDrop: the board after it and the merges of trySnap
handlePieceDrop(prev, cols, rows) ==
    LET snapResult == legacyTrySnap(prev)
        guideResult == trySnapToGuide(snapResult.pieces, cols, rows)
        groups == {guideResult.pieces[k].groupId : k \in DOMAIN guideResult.pieces}
    IN  [pieces |-> guideResult.pieces, log |-> snapResult.log,
         \* the test in front of the toast of the finished puzzle
         complete |-> Cardinality(groups) = 1 /\ Len(guideResult.pieces) = cols * rows]

\* PuzzleBoard.tsx handlePointerUp
boardPointerUp(cols, rows) ==
    /\ dragging # NoDragging
    /\ LET r == handlePieceDrop(boardPieces, cols, rows)
       IN  /\ boardPieces' = r.pieces
           /\ snapLog' = [dragged |-> dragging.id, merges |-> r.log,
                          complete |-> r.complete]
    /\ dragging' = NoDragging
    /\ UNCHANGED trayPieces
    /\ UNCHANGED <<genVars, canvasVars, saveVars, tabVars>>

\* ---- a legacy game on a 3 x 1 puzzle ----
\* two outcomes of the shuffle at the end of splitImage: none and a reversal
Shuffles(seq) ==
    {seq, [k \in DOMAIN seq |-> seq[Len(seq) + 1 - k]]}

LegacyInit ==
    /\ gArgs = [cols |-> 0] /\ gLayout = NoLayout /\ gPrev = << >> /\ CanvasIdle
    /\ trayPieces \in Shuffles(splitImage(3, 1))
    /\ boardPieces = << >> /\ dragging = NoDragging /\ snapLog = NoSnapLog
    /\ TabsIdle

\* a drag ends on a target, within the threshold of it, or at the threshold
NextLegacy ==
    \/ \E sel \in SUBSET (DOMAIN trayPieces) :
       \E spot \in [DOMAIN trayPieces -> SendSpots] : sendToBoard(sel, spot)
    \/ clearStrayPieces
    \/ \E k \in DOMAIN boardPieces : boardPointerDown(k)
    \/ boardPointerMove({<<0, 0>>, <<6, 0>>, <<10, 0>>})
    \/ boardPointerUp(3, 1)

SpecLegacy == LegacyInit /\ [][NextLegacy]_vars

\* ---- the legacy page with its autoSave ----
\* database writes started in one run
MaxWrites == 3

\* lib/puzzle.ts serializePieces: every field but imageDataUrl
serializePieces(pieces) ==
    [k \in DOMAIN pieces |->
        [id |-> pieces[k].id, row |-> pieces[k].row, col |-> pieces[k].col,
         displayWidth |-> pieces[k].displayWidth, displayHeight |-> pieces[k].displayHeight,
         offsetX |-> pieces[k].offsetX, offsetY |-> pieces[k].offsetY,
         x |-> pieces[k].x, y |-> pieces[k].y,
         groupId |-> pieces[k].groupId, locked |-> pieces[k].locked]]

\* boardData and trayData of autoSave
SaveData ==
    [board |-> serializePieces(boardPieces), tray |-> serializePieces(trayPieces)]

\* autoSave going on whatever savingRef holds
skipsSave_Never(saving) == FALSE

\* autoSave: if (!user || savingRef.current) return, the user being signed in
skipsSave(saving) == saving

\* autoSave up to its await: nothing when it returns at once, else savingRef is
\* set and an update (the game has an id) or an insert is sent
autoSave(back) ==
    IF skipsSave(savingRef)
    THEN UNCHANGED <<savingRef, writes>>
    ELSE /\ savingRef' = TRUE
         /\ writes' = Append(writes,
                             [op |-> IF gameIdRef # 0 THEN "update" ELSE "insert",
                              id |-> gameIdRef, data |-> SaveData,
                              back |-> back, state |-> "flight"])

\* handleVisibilityChange (the page is hidden) and handleBeforeUnload
onPageHide ==
    /\ page = "game"
    /\ Len(writes) < MaxWrites
    /\ autoSave(FALSE)
    /\ UNCHANGED <<gameIdRef, puzzle_games, page, backAt>>
    /\ UNCHANGED <<genVars, canvasVars, legacyVars, tabVars>>

\* handleBack of the page: await autoSave(), then navigate("/"); an autoSave
\* that returns at once lets navigate run in the same turn
legacyHandleBack ==
    /\ page = "game"
    /\ backAt = NoData
    /\ Len(writes) < MaxWrites
    /\ backAt' = SaveData
    /\ autoSave(TRUE)
    /\ page' = IF skipsSave(savingRef) THEN "home" ELSE page
    /\ UNCHANGED <<gameIdRef, puzzle_games>>
    /\ UNCHANGED <<genVars, canvasVars, legacyVars, tabVars>>

\* the database answers write k, with the row written (ok) or with an error;
\* autoSave goes on after its await, and after it handleBack if it was waiting
writeDone(k, ok) ==
    /\ k \in DOMAIN writes
    /\ writes[k].state = "flight"
    /\ writes' = [writes EXCEPT ![k].state = IF ok THEN "ok" ELSE "error"]
    /\ IF ok /\ writes[k].op = "insert"
       THEN /\ puzzle_games' = Append(puzzle_games, writes[k].data)
            /\ gameIdRef' = Len(puzzle_games) + 1
       ELSE IF ok
       THEN /\ puzzle_games' = [puzzle_games EXCEPT ![writes[k].id] = writes[k].data]
            /\ UNCHANGED gameIdRef
       ELSE UNCHANGED <<puzzle_games, gameIdRef>>
    /\ savingRef' = FALSE
    /\ page' = IF writes[k].back THEN "home" ELSE page
    /\ UNCHANGED backAt
    /\ UNCHANGED <<genVars, canvasVars, legacyVars, tabVars>>

\* the player sends tray pieces to the board while the page is shown
editBoard ==
    /\ page = "game"
    /\ \E sel \in SUBSET (DOMAIN trayPieces) :
       \E spot \in [DOMAIN trayPieces -> SendSpots] : sendToBoard(sel, spot)

\* a 2 x 1 game, new (no id yet) or opened from its row
SaveInit ==
    /\ gArgs = [cols |-> 0] /\ gLayout = NoLayout /\ gPrev = << >> /\ CanvasOff
    /\ trayPieces = splitImage(2, 1)
    /\ boardPieces = << >> /\ dragging = NoDragging /\ snapLog = NoSnapLog
    /\ TabsIdle
    /\ savingRef = FALSE /\ writes = << >> /\ page = "game" /\ backAt = NoData
    /\ \/ gameIdRef = 0 /\ puzzle_games = << >>
       \/ gameIdRef = 1 /\ puzzle_games = <<SaveData>>

NextSave ==
    \/ editBoard
    \/ onPageHide
    \/ legacyHandleBack
    \/ \E k \in 1..MaxWrites, ok \in BOOLEAN : writeDone(k, ok)

SpecSave == SaveInit /\ [][NextSave]_vars

\* ---- the merges of a drop ----
\* the merges of the last drop, in the order trySnap made them
Merges == {snapLog.merges[n] : n \in DOMAIN snapLog.merges}

\* the pieces of the two groups a merge joins
GroupA(m) == {k \in DOMAIN m.before : m.before[k].groupId = m.before[m.i].groupId}
GroupB(m) == {k \in DOMAIN m.before : m.before[k].groupId = m.before[m.j].groupId}

KeepsPlace(m, S) ==
    \A k \in S : m.after[k].x = m.before[k].x /\ m.after[k].y = m.before[k].y

\* every piece of S moves by the same vector
TranslatedTogether(m, S) ==
    \E k \in S :
        \A n \in S :
            /\ m.after[n].x - m.before[n].x = m.after[k].x - m.before[k].x
            /\ m.after[n].y - m.before[n].y = m.after[k].y - m.before[k].y

\* the pair that snapped sits exactly one cell apart
Aligned(m) ==
    /\ m.after[m.j].x = m.after[m.i].x + (m.after[m.j].col - m.after[m.i].col) * cellW(m.after)
    /\ m.after[m.j].y = m.after[m.i].y + (m.after[m.j].row - m.after[m.i].row) * cellH(m.after)

OneGroupId(m) ==
    \A k \in GroupA(m) \cup GroupB(m) : m.after[k].groupId = m.after[m.i].groupId

\* C3: when trySnap merges two groups that are both locked, the two groups end
\* with one common groupId and no piece of either group has its x or y changed
C3_BothLockedIdentityUnion ==
    \A m \in Merges :
        (m.aLocked /\ m.bLocked) =>
            /\ OneGroupId(m)
            /\ KeepsPlace(m, GroupA(m) \cup GroupB(m))

\* a drop merged two locked groups whose pieces were not exactly aligned
C3_Witness ==
    \E m \in Merges : m.aLocked /\ m.bLocked /\ ~Aligned(m)

\* C4: when trySnap merges a locked group with an unlocked one, the locked
\* group keeps its place, the unlocked group moves as a whole by the vector that
\* aligns the pair exactly, and every piece of the merged group ends locked,
\* whichever of the two comes first in the array
C4_UnlockedJoinsLocked ==
    \A m \in Merges :
        (m.aLocked # m.bLocked) =>
            LET lockedGroup == IF m.aLocked THEN GroupA(m) ELSE GroupB(m)
                freeGroup == IF m.aLocked THEN GroupB(m) ELSE GroupA(m)
            IN  /\ KeepsPlace(m, lockedGroup)
                /\ TranslatedTogether(m, freeGroup)
                /\ Aligned(m)
                /\ OneGroupId(m)
                /\ \A k \in lockedGroup \cup freeGroup : m.after[k].locked

\* a drop moved an unlocked group of two pieces, first in the array, onto a
\* locked group
C4_Witness ==
    \E m \in Merges :
        /\ m.bLocked /\ ~m.aLocked
        /\ Cardinality(GroupA(m)) = 2
        /\ ~KeepsPlace(m, GroupA(m))

\* the merges of two unlocked groups of which one holds the dragged piece
DraggedMerges ==
    {m \in Merges :
        /\ ~m.aLocked /\ ~m.bLocked
        /\ \E k \in GroupA(m) \cup GroupB(m) : m.before[k].id = snapLog.dragged}

DraggedIn(m, S) == \E k \in S : m.before[k].id = snapLog.dragged

\* C5 as stated: when a drop merges the dragged piece's group with another
\* unlocked group, the group that was not dragged keeps its x and y
C5_StationaryGroupKeepsPlace ==
    \A m \in DraggedMerges :
        /\ DraggedIn(m, GroupA(m)) => KeepsPlace(m, GroupB(m))
        /\ DraggedIn(m, GroupB(m)) => KeepsPlace(m, GroupA(m))

\* C5: when a drop merges the dragged piece's group with another unlocked
\* group, the group of the piece that comes first in the array keeps its x and
\* y and the other group moves as a whole into exact alignment, whether or not
\* it holds the dragged piece; no piece ends locked by the merge
C5_LaterGroupMoves ==
    \A m \in DraggedMerges :
        /\ KeepsPlace(m, GroupA(m))
        /\ TranslatedTogether(m, GroupB(m))
        /\ Aligned(m)
        /\ OneGroupId(m)
        /\ \A k \in GroupA(m) \cup GroupB(m) : ~m.after[k].locked

\* a drop left the dragged group where it was and moved the other group to it
C5_Witness ==
    \E m \in DraggedMerges : DraggedIn(m, GroupA(m)) /\ ~KeepsPlace(m, GroupB(m))

\* ---- locked pieces ----
LegacyIds == {p.id : p \in {boardPieces[k] : k \in DOMAIN boardPieces}
                          \cup {trayPieces[k] : k \in DOMAIN trayPieces}}

\* the piece with this id, on the board or in the tray
PieceOf(board_, tray_, id) ==
    LET all == board_ \o tray_
    IN  all[CHOOSE k \in DOMAIN all : all[k].id = id]

\* C10: once a piece is locked, no operation of the game changes its x or y or
\* unlocks it
C10_LockedStaysPut ==
    [][\A id \in LegacyIds :
          PieceOf(boardPieces, trayPieces, id).locked =>
              /\ PieceOf(boardPieces', trayPieces', id).locked
              /\ PieceOf(boardPieces', trayPieces', id).x = PieceOf(boardPieces, trayPieces, id).x
              /\ PieceOf(boardPieces', trayPieces', id).y = PieceOf(boardPieces, trayPieces, id).y]_vars

\* ---- updateGroupPosition on every board of the game ----
\* the group ids a call can name: those of the three pieces and one of no piece
MoveGroupIds == 0..3
\* the pointer deltas of a call
MoveDeltas == {<<0, 0>>, <<7, 0>>, <<0 - 3, 5>>}

\* C11: updateGroupPosition on a group with a locked piece, or on a groupId of
\* no piece, leaves every piece as it was; on an unlocked group it adds (dx, dy)
\* to x and y of exactly the board pieces of that group and changes nothing else
C11_MoveGroup ==
    \A gid \in MoveGroupIds : \A d \in MoveDeltas :
        LET after == updateGroupPosition(boardPieces, gid, d[1], d[2])
            members == {k \in DOMAIN boardPieces : boardPieces[k].groupId = gid}
        IN  /\ DOMAIN after = DOMAIN boardPieces
            /\ (members = {} \/ \E k \in members : boardPieces[k].locked)
                  => after = boardPieces
            /\ (\A k \in members : ~boardPieces[k].locked)
                  => \A k \in DOMAIN boardPieces :
                        after[k] = IF k \in members
                                   THEN [boardPieces[k] EXCEPT !.x = @ + d[1], !.y = @ + d[2]]
                                   ELSE boardPieces[k]

\* a board with a locked group, an unlocked group of two pieces, and a group id
\* of no piece on it
C11_Witness ==
    /\ \E k \in DOMAIN boardPieces : boardPieces[k].locked
    /\ \E k, n \in DOMAIN boardPieces :
          /\ k # n /\ boardPieces[k].groupId = boardPieces[n].groupId
          /\ ~groupLocked(boardPieces, boardPieces[k].groupId)
    /\ \E gid \in MoveGroupIds : \A k \in DOMAIN boardPieces : boardPieces[k].groupId # gid

\* ======================================================================
\* lib/puzzle.ts trySnap and trySnapToGuide as functions, on boards of two or
\* three pieces of a 3 x 3 puzzle
\* ======================================================================
SnapCols == 3
SnapRows == 3

\* the cells the pieces come from: a corner with its neighbour, the corner two
\* cells from it, and the interior cell, diagonal to both corners
SnapCells == {<<0, 0>>, <<0, 1>>, <<0, 2>>, <<1, 1>>}

\* where the cell (0, 0) of a piece's frame lies: somewhere on the table, or on
\* the guide
SnapOrigins == {<<100, 100>>, <<PUZZLE_ORIGIN.x - 10, PUZZLE_ORIGIN.y - 10>>}

\* how far from its cell of the frame a piece lies: on it, below the threshold
\* of 10, at the threshold, above it
SnapJitter == {<<0, 0>>, <<5, 3>>, <<8, 6>>, <<9, 6>>}

\* a piece of splitImage at cell rc, put at its cell of the frame at o, d away
pieceAt(rc, o, d, locked) ==
    [id |-> rc[1] * SnapCols + rc[2], row |-> rc[1], col |-> rc[2],
     displayWidth |-> 120, displayHeight |-> 120, offsetX |-> 10, offsetY |-> 10,
     x |-> o[1] + rc[2] * 100 + d[1], y |-> o[2] + rc[1] * 100 + d[2],
     groupId |-> rc[1] * SnapCols + rc[2], locked |-> locked]

SnapPieces(origins) ==
    {pieceAt(rc, o, d, l) : rc \in SnapCells, o \in origins, d \in SnapJitter,
                            l \in BOOLEAN}

\* two pieces, each in a frame of its own choice, or three in one frame
SnapInit ==
    /\ gArgs = [cols |-> 0] /\ gLayout = NoLayout /\ gPrev = << >> /\ CanvasIdle
    /\ trayPieces = << >> /\ dragging = NoDragging /\ snapLog = NoSnapLog
    /\ TabsIdle
    /\ \/ boardPieces \in [1..2 -> SnapPieces(SnapOrigins)]
       \/ \E o \in SnapOrigins : boardPieces \in [1..3 -> SnapPieces({o})]
    /\ \A k, m \in DOMAIN boardPieces : k # m => boardPieces[k].id # boardPieces[m].id

\* a call of trySnap on the board; snapLog keeps the argument and the result
callTrySnap ==
    /\ boardPieces' = legacyTrySnap(boardPieces).pieces
    /\ snapLog' = [dragged |-> null, merges |-> legacyTrySnap(boardPieces).log,
                   call |-> "trySnap", before |-> boardPieces,
                   snapped |-> legacyTrySnap(boardPieces).snapped]
    /\ UNCHANGED <<trayPieces, dragging>>
    /\ UNCHANGED <<genVars, canvasVars, saveVars, tabVars>>

\* a call of trySnapToGuide on the board
callTrySnapToGuide ==
    /\ boardPieces' = trySnapToGuide(boardPieces, SnapCols, SnapRows).pieces
    /\ snapLog' = [dragged |-> null, merges |-> << >>,
                   call |-> "trySnapToGuide", before |-> boardPieces,
                   snapped |-> trySnapToGuide(boardPieces, SnapCols, SnapRows).snapped]
    /\ UNCHANGED <<trayPieces, dragging>>
    /\ UNCHANGED <<genVars, canvasVars, saveVars, tabVars>>

NextSnap == callTrySnap \/ callTrySnapToGuide

SpecSnap == SnapInit /\ [][NextSnap]_vars

\* ---- the results of trySnap ----
\* pieces i and j lie on the board in cells next to each other, in different
\* groups, j less than max(8, 0.10 * min(cellW, cellH)) from its place next to i
ClosePair(u, i, j) ==
    LET dr == u[j].row - u[i].row
        dc == u[j].col - u[i].col
        dx == u[j].x - (u[i].x + dc * (u[1].displayWidth - 2 * u[1].offsetX))
        dy == u[j].y - (u[i].y + dr * (u[1].displayHeight - 2 * u[1].offsetY))
        cell == Min2(u[1].displayWidth - 2 * u[1].offsetX,
                     u[1].displayHeight - 2 * u[1].offsetY)
        t10 == IF cell > 80 THEN cell ELSE 80
    IN  /\ u[i].x # null /\ u[i].y # null /\ u[j].x # null /\ u[j].y # null
        /\ u[i].groupId # u[j].groupId
        /\ dr * dr + dc * dc = 1
        /\ 100 * (dx * dx + dy * dy) < t10 * t10

\* pieces i and j lie exactly one cell apart
ExactlyApart(u, i, j) ==
    /\ u[j].x - u[i].x = (u[j].col - u[i].col) * (u[1].displayWidth - 2 * u[1].offsetX)
    /\ u[j].y - u[i].y = (u[j].row - u[i].row) * (u[1].displayHeight - 2 * u[1].offsetY)

HasLocked(u, gid) == \E k \in DOMAIN u : u[k].groupId = gid /\ u[k].locked

\* the first close pair in the order trySnap scans the array
FirstClosePair(u, i, j) ==
    /\ i < j /\ ClosePair(u, i, j)
    /\ \A a, b \in DOMAIN u :
          (a < b /\ ClosePair(u, a, b)) => (i < a \/ (i = a /\ j <= b))

\* C12 as stated: every close pair of the board ends in one group, exactly one
\* cell apart, and snapped is true
C12_EveryClosePairSnaps ==
    LET r == legacyTrySnap(boardPieces)
    IN  \A i, j \in DOMAIN boardPieces :
            (i < j /\ ClosePair(boardPieces, i, j)) =>
                /\ r.snapped
                /\ r.pieces[i].groupId = r.pieces[j].groupId
                /\ ExactlyApart(r.pieces, i, j)

\* C12: the first close pair of the scan ends in one group and snapped is true;
\* the two pieces end exactly one cell apart unless both groups held a locked
\* piece, and then no piece of the two groups has moved
C12_FirstClosePairSnaps ==
    LET u == boardPieces
        r == legacyTrySnap(u)
    IN  \A i, j \in DOMAIN u :
            FirstClosePair(u, i, j) =>
                /\ r.snapped
                /\ r.pieces[i].groupId = r.pieces[j].groupId
                /\ IF HasLocked(u, u[i].groupId) /\ HasLocked(u, u[j].groupId)
                   THEN /\ r.pieces[i].x = u[i].x /\ r.pieces[i].y = u[i].y
                        /\ r.pieces[j].x = u[j].x /\ r.pieces[j].y = u[j].y
                   ELSE ExactlyApart(r.pieces, i, j)

\* trySnap has run on a board of three pieces whose first close pair was out of
\* line and unlocked, and has left a later close pair of that board in two groups
C12_Witness ==
    /\ Len(boardPieces) = 3
    /\ snapLog.merges # << >>
    /\ LET u == snapLog.merges[1].before
       IN  /\ \E i, j \in DOMAIN u :
                 /\ FirstClosePair(u, i, j)
                 /\ ~ExactlyApart(u, i, j)
                 /\ ~HasLocked(u, u[i].groupId) /\ ~HasLocked(u, u[j].groupId)
                 /\ ExactlyApart(boardPieces, i, j)
           /\ \E a, b \in DOMAIN u :
                 /\ a < b /\ ClosePair(u, a, b)
                 /\ boardPieces[a].groupId # boardPieces[b].groupId

\* pieces i and j lie in cells next to each other, in different groups, j
\* further than the threshold from its place next to i
FarPair(u, i, j) ==
    LET dr == u[j].row - u[i].row
        dc == u[j].col - u[i].col
        dx == u[j].x - (u[i].x + dc * (u[1].displayWidth - 2 * u[1].offsetX))
        dy == u[j].y - (u[i].y + dr * (u[1].displayHeight - 2 * u[1].offsetY))
        cell == Min2(u[1].displayWidth - 2 * u[1].offsetX,
                     u[1].displayHeight - 2 * u[1].offsetY)
        t10 == IF cell > 80 THEN cell ELSE 80
    IN  /\ u[i].x # null /\ u[i].y # null /\ u[j].x # null /\ u[j].y # null
        /\ u[i].groupId # u[j].groupId
        /\ dr * dr + dc * dc = 1
        /\ 100 * (dx * dx + dy * dy) > t10 * t10

NoClosePair(u) == \A i, j \in DOMAIN u : i < j => ~ClosePair(u, i, j)

\* C13 as stated: a pair below the threshold ends in one group, a pair above
\* it does not, and without a close pair nothing changes and snapped is false
C13_ThresholdDecidesEveryPair ==
    LET u == boardPieces
        r == legacyTrySnap(u)
    IN  /\ \A i, j \in DOMAIN u :
              /\ (i < j /\ ClosePair(u, i, j)) => r.pieces[i].groupId = r.pieces[j].groupId
              /\ (i < j /\ FarPair(u, i, j)) => r.pieces[i].groupId # r.pieces[j].groupId
        /\ NoClosePair(u) => (~r.snapped /\ r.pieces = u)

\* C13: the first close pair of the scan ends in one group; every merge of the
\* call joins a pair that is below the threshold in the array as the earlier
\* merges left it, never one at or above it; and without a close pair on entry
\* nothing changes and snapped is false
C13_ThresholdAtTheScan ==
    LET u == boardPieces
        r == legacyTrySnap(u)
    IN  /\ \A i, j \in DOMAIN u :
              FirstClosePair(u, i, j) => r.pieces[i].groupId = r.pieces[j].groupId
        /\ \A n \in DOMAIN r.log : ClosePair(r.log[n].before, r.log[n].i, r.log[n].j)
        /\ r.snapped = (r.log # << >>)
        /\ NoClosePair(u) => (~r.snapped /\ r.pieces = u /\ r.log = << >>)

\* trySnap has merged a pair that lay above the threshold on entry, after an
\* earlier merge of the call had moved one of its pieces
C13_Witness ==
    /\ Len(snapLog.merges) = 2
    /\ LET u == snapLog.merges[1].before
           m == snapLog.merges[2]
       IN  /\ FarPair(u, m.i, m.j)
           /\ boardPieces[m.i].groupId = boardPieces[m.j].groupId

\* the cells of pieces i and j share a side
CellsAdjacent(u, i, j) ==
    LET dr == u[j].row - u[i].row
        dc == u[j].col - u[i].col
    IN  (IF dr < 0 THEN 0 - dr ELSE dr) + (IF dc < 0 THEN 0 - dc ELSE dc) = 1

\* C14: every merge of trySnap joins two pieces whose cells share a side; on a
\* board where no two pieces are in such cells, diagonal or further apart as
\* they all are, the call changes no position and no groupId, whatever the
\* positions, and snapped is false
C14_OnlyAdjacentCellsSnap ==
    LET u == boardPieces
        r == legacyTrySnap(u)
    IN  /\ \A n \in DOMAIN r.log : CellsAdjacent(r.log[n].before, r.log[n].i, r.log[n].j)
        /\ (\A i, j \in DOMAIN u : ~CellsAdjacent(u, i, j))
              => (r.pieces = u /\ ~r.snapped)

\* trySnap has run on two corners and the interior piece, all three exactly where
\* they lie in the assembled picture, and has merged nothing
C14_Witness ==
    /\ snapLog.dragged = null /\ snapLog.merges = << >>
    /\ "call" \in DOMAIN snapLog
    /\ snapLog.call = "trySnap" /\ ~snapLog.snapped
    /\ snapLog.before = boardPieces
    /\ Len(boardPieces) = 3
    /\ \A i, j \in DOMAIN boardPieces :
          /\ ~CellsAdjacent(boardPieces, i, j)
          /\ (i # j => boardPieces[i].groupId # boardPieces[j].groupId)
          /\ ~boardPieces[i].locked
          /\ ExactlyApart(boardPieces, i, j)

\* ---- the results of trySnapToGuide ----
GroupOf(u, gid) == {k \in DOMAIN u : u[k].groupId = gid}

InBorderCell(p) ==
    p.row = 0 \/ p.row = SnapRows - 1 \/ p.col = 0 \/ p.col = SnapCols - 1

\* PUZZLE_ORIGIN minus the piece offset plus (col * cellW, row * cellH)
GuideX(u, p) == 800 - u[1].offsetX + p.col * (u[1].displayWidth - 2 * u[1].offsetX)
GuideY(u, p) == 800 - u[1].offsetY + p.row * (u[1].displayHeight - 2 * u[1].offsetY)

\* piece k is less than the threshold from its guide position
NearGuide(u, k) ==
    LET dx == u[k].x - GuideX(u, u[k])
        dy == u[k].y - GuideY(u, u[k])
        cell == Min2(u[1].displayWidth - 2 * u[1].offsetX,
                     u[1].displayHeight - 2 * u[1].offsetY)
        t10 == IF cell > 80 THEN cell ELSE 80
    IN  u[k].x # null /\ u[k].y # null /\ 100 * (dx * dx + dy * dy) < t10 * t10

\* the group is unlocked, holds a border piece and has a member near its guide
\* position
Qualifies(u, gid) ==
    /\ GroupOf(u, gid) # {}
    /\ \A k \in GroupOf(u, gid) : ~u[k].locked
    /\ \E k \in GroupOf(u, gid) : InBorderCell(u[k])
    /\ \E k \in GroupOf(u, gid) : NearGuide(u, k)

\* C15: trySnapToGuide moves every member of a group that qualifies by one
\* vector, the one that puts a member near its guide position exactly on it,
\* locks every member, and returns snapped = true
C15_GuideSnapsGroup ==
    LET u == boardPieces
        r == trySnapToGuide(u, SnapCols, SnapRows)
    IN  \A gid \in {u[k].groupId : k \in DOMAIN u} :
            Qualifies(u, gid) =>
                /\ r.snapped
                /\ \E q \in GroupOf(u, gid) :
                      /\ NearGuide(u, q)
                      /\ r.pieces[q].x = GuideX(u, u[q]) /\ r.pieces[q].y = GuideY(u, u[q])
                      /\ \A k \in GroupOf(u, gid) :
                            /\ r.pieces[k].x - u[k].x = GuideX(u, u[q]) - u[q].x
                            /\ r.pieces[k].y - u[k].y = GuideY(u, u[q]) - u[q].y
                /\ \A k \in GroupOf(u, gid) :
                      r.pieces[k].locked /\ r.pieces[k].groupId = gid

\* trySnapToGuide has moved an unlocked group of a border piece and the interior
\* piece, which lay off the guide, onto it and locked it
C15_Witness ==
    /\ "call" \in DOMAIN snapLog
    /\ snapLog.call = "trySnapToGuide" /\ snapLog.snapped
    /\ LET u == snapLog.before
       IN  \E k, n \in DOMAIN u :
              /\ k # n /\ u[k].groupId = u[n].groupId
              /\ Qualifies(u, u[k].groupId)
              /\ ~InBorderCell(u[n])
              /\ u[k].x # GuideX(u, u[k])
              /\ boardPieces[k].x = GuideX(u, u[k]) /\ boardPieces[k].y = GuideY(u, u[k])
              /\ boardPieces[n].x = GuideX(u, u[n]) /\ boardPieces[n].y = GuideY(u, u[n])
              /\ boardPieces[k].locked /\ boardPieces[n].locked

\* C16: trySnapToGuide leaves every piece of a group without a border piece
\* where it is and as locked as it was, however near the guide it lies, and
\* returns snapped = false and the board as it was when no group qualifies
C16_InteriorGroupStays ==
    LET u == boardPieces
        r == trySnapToGuide(u, SnapCols, SnapRows)
    IN  /\ \A gid \in {u[k].groupId : k \in DOMAIN u} :
              (\A k \in GroupOf(u, gid) : ~InBorderCell(u[k])) =>
                  \A k \in GroupOf(u, gid) : r.pieces[k] = u[k]
        /\ (\A gid \in {u[k].groupId : k \in DOMAIN u} : ~Qualifies(u, gid))
              => (~r.snapped /\ r.pieces = u)

\* trySnapToGuide has left the interior piece, alone in its group, unlocked and
\* 5.8 px off its guide position, and returned snapped = false
C16_Witness ==
    /\ "call" \in DOMAIN snapLog
    /\ snapLog.call = "trySnapToGuide" /\ ~snapLog.snapped
    /\ snapLog.before = boardPieces
    /\ \E k \in DOMAIN boardPieces :
          /\ ~InBorderCell(boardPieces[k])
          /\ GroupOf(boardPieces, boardPieces[k].groupId) = {k}
          /\ ~boardPieces[k].locked
          /\ NearGuide(boardPieces, k)
          /\ boardPieces[k].x # GuideX(boardPieces, boardPieces[k])

\* ---- the release of a drag on the canvas ----
\* the step is a release of the dragged piece
IsRelease == drag # NoDrag /\ drag' = NoDrag /\ Len(board'.pieces) = Len(board.pieces)

\* less than snapDist = 0.28 * min(width, height) of piece p
WithinSnapDist(p, dx, dy) ==
    LET d2 == dx * dx + dy * dy
        m == Min2(p.width, p.height)
    IN  d2 < 50000 /\ 10000 * d2 < (28 * m) * (28 * m)

\* piece j is on the board, in another group than piece i and in a cell next to
\* it, and piece i is less than snapDist from its place next to piece j
NearNeighbour(b, tray, i, j) ==
    LET p == b.pieces[i]
        q == b.pieces[j]
        dc == q.col - p.col
        dr == q.row - p.row
    IN  /\ q.id \notin tray
        /\ b.groups[q.id] # b.groups[p.id]
        /\ dc * dc + dr * dr = 1
        /\ WithinSnapDist(p, p.x - (q.x - dc * p.width), p.y - (q.y - dr * p.height))

\* after the step piece i lies exactly one piece next to piece j, the group piece
\* i had has moved as a whole, and the two are in one group
SnappedTo(i, j) ==
    LET p == board'.pieces[i]
        q == board'.pieces[j]
    IN  /\ q.x - p.x = (q.col - p.col) * p.width
        /\ q.y - p.y = (q.row - p.row) * p.height
        /\ board'.groups[p.id] = board'.groups[q.id]
        /\ \A k \in getGroup(board, i) :
              /\ board'.pieces[k].x - board.pieces[k].x = p.x - board.pieces[i].x
              /\ board'.pieces[k].y - board.pieces[k].y = p.y - board.pieces[i].y
              /\ board'.groups[board.pieces[k].id] = board'.groups[p.id]

FirstNearNeighbour(b, tray, i) ==
    LET near == {j \in DOMAIN b.pieces : NearNeighbour(b, tray, i, j)}
    IN  IF near = {} THEN 0 ELSE CHOOSE j \in near : \A m \in near : j <= m

\* piece i is less than snapDist from its solved position
NearSolved(b, i) ==
    WithinSnapDist(b.pieces[i], b.pieces[i].x - (b.boardX + b.pieces[i].solvedX),
                                b.pieces[i].y - (b.boardY + b.pieces[i].solvedY))

\* C18: a release with a neighbour within snapDist makes the neighbour snap and
\* not the solved-position snap: unless the merged group is then placed, the
\* piece ends next to the neighbour where the neighbour lay, also when it was
\* within snapDist of its solved position.  A release without such a neighbour
\* and within snapDist of the solved position moves the whole group by one
\* offset, the piece ends exactly on its solved position, and no group changes
C18_NeighbourBeforeSolved ==
    [][IsRelease =>
         LET i == drag.piece
             j == FirstNearNeighbour(board, trayIds, i)
             p == board.pieces[i]
         IN  /\ j # 0 =>
                   /\ SnappedTo(i, j)
                   /\ ~board'.pieces[i].isPlaced =>
                         /\ board'.pieces[j].x = board.pieces[j].x
                         /\ board'.pieces[j].y = board.pieces[j].y
             /\ (j = 0 /\ NearSolved(board, i)) =>
                   /\ board'.pieces[i].x = board.boardX + p.solvedX
                   /\ board'.pieces[i].y = board.boardY + p.solvedY
                   /\ board'.groups = board.groups
                   /\ \A k \in getGroup(board, i) :
                         /\ board'.pieces[k].x - board.pieces[k].x = board'.pieces[i].x - p.x
                         /\ board'.pieces[k].y - board.pieces[k].y = board'.pieces[i].y - p.y]_vars

\* one piece sits placed in a group of its own, put there by the solved-position
\* snap, and the two others float in one group off their solved positions, joined
\* by the neighbour snap
C18_Witness ==
    /\ drag = NoDrag
    /\ \E k \in DOMAIN board.pieces :
          /\ board.pieces[k].isPlaced
          /\ getGroup(board, k) = {k}
    /\ \E i, j \in DOMAIN board.pieces :
          /\ i # j /\ j \in getGroup(board, i)
          /\ ~board.pieces[i].isPlaced /\ ~board.pieces[j].isPlaced
          /\ ~NearSolved(board, i)
          /\ board.pieces[i].id \notin trayIds /\ board.pieces[j].id \notin trayIds

\* less than 1.5 * snapDist = 0.42 * min(width, height) from the solved position
WithinLockTolerance(b, k) ==
    LET p == b.pieces[k]
        dx == p.x - (b.boardX + p.solvedX)
        dy == p.y - (b.boardY + p.solvedY)
        d2 == dx * dx + dy * dy
        m == Min2(p.width, p.height)
    IN  d2 < 50000 /\ 10000 * d2 < (42 * m) * (42 * m)

OnSolved(b, p) == p.x = b.boardX + p.solvedX /\ p.y = b.boardY + p.solvedY

\* C19: on every board the canvas reaches and for every set of its pieces taken
\* as the group, checkAndPlaceGroup either finds all members within the lock
\* tolerance and then puts every member exactly on its solved position with
\* isPlaced set, or leaves every position and every isPlaced flag as it was;
\* the pieces outside the group keep theirs in both cases
C19_PlaceAllOrNothing ==
    \A G \in SUBSET (DOMAIN board.pieces) :
        G # {} =>
            LET after == checkAndPlaceGroup(board, G)
                same(k) == /\ after[k].x = board.pieces[k].x
                           /\ after[k].y = board.pieces[k].y
                           /\ after[k].isPlaced = board.pieces[k].isPlaced
            IN  /\ DOMAIN after = DOMAIN board.pieces
                /\ \A k \in DOMAIN board.pieces \ G : same(k)
                /\ IF \A k \in G : WithinLockTolerance(board, k)
                   THEN \A k \in G : OnSolved(board, after[k]) /\ after[k].isPlaced
                   ELSE \A k \in G : same(k)

\* a released pair was placed as one group, exactly on the solved positions, and
\* a third piece lies on the board outside the lock tolerance and unplaced: with
\* it the three are a group that is aligned only in part
C19_Witness ==
    /\ drag = NoDrag
    /\ \E i, j, k \in DOMAIN board.pieces :
          /\ i # j /\ j \in getGroup(board, i) /\ k \notin getGroup(board, i)
          /\ board.pieces[i].isPlaced /\ board.pieces[j].isPlaced
          /\ OnSolved(board, board.pieces[i]) /\ OnSolved(board, board.pieces[j])
          /\ board.pieces[k].id \notin trayIds
          /\ ~board.pieces[k].isPlaced
          /\ ~WithinLockTolerance(board, k)

\* a release to which neither snap of trySnap applies
ReleaseWithoutSnap ==
    /\ IsRelease
    /\ FirstNearNeighbour(board, trayIds, drag.piece) = 0
    /\ ~NearSolved(board, drag.piece)

\* no piece's x, y or isPlaced and no group membership changes in the step
KeepsGeometry ==
    /\ board'.groups = board.groups
    /\ \A k \in DOMAIN board.pieces :
          /\ board'.pieces[k].x = board.pieces[k].x
          /\ board'.pieces[k].y = board.pieces[k].y
          /\ board'.pieces[k].isPlaced = board.pieces[k].isPlaced

\* the release that handlePointerUp answers by handing the piece to the tray:
\* the pointer last seen in the drawer zone, the piece alone in its group
OverDrawerAlone == lastInDrawer /\ getGroup(board, drag.piece) = {drag.piece}

\* C20 as stated: a release without a snap changes no x, y, group or isPlaced,
\* and the released piece stays floating on the board, out of the tray
C20_NoSnapLeavesFloating ==
    [][ReleaseWithoutSnap =>
         /\ KeepsGeometry
         /\ board.pieces[drag.piece].id \notin trayIds']_vars

\* C20: a release without a snap changes no piece's x or y, no group and no
\* isPlaced flag; the released piece stays floating on the board unless it is
\* alone in its group and the pointer was last in the drawer zone, and then it
\* is handed back to the tray; the tray changes in no other way
C20_NoSnapKeepsGeometry ==
    [][ReleaseWithoutSnap =>
         /\ KeepsGeometry
         /\ trayIds' = IF OverDrawerAlone
                       THEN trayIds \cup {board.pieces[drag.piece].id}
                       ELSE trayIds
         /\ ~OverDrawerAlone => board.pieces[drag.piece].id \notin trayIds']_vars

\* a lone piece floats unplaced on the board half a piece below its solved
\* position, away from every neighbour's side, where a release without a snap
\* left it
C20_Witness ==
    /\ drag = NoDrag
    /\ \E i \in DOMAIN board.pieces :
          /\ board.pieces[i].id \notin trayIds
          /\ ~board.pieces[i].isPlaced
          /\ ~board.pieces[i].isSelected
          /\ getGroup(board, i) = {i}
          /\ ~NearSolved(board, i)
          /\ FirstNearNeighbour(board, trayIds, i) = 0
          /\ board.pieces[i].x = board.boardX + board.pieces[i].solvedX
          /\ board.pieces[i].y = board.boardY + board.pieces[i].solvedY
                                   + board.pieces[i].height \div 2

\* x, y, groupId and locked agree piece by piece
SamePlaces(u, v) ==
    /\ Len(u) = Len(v)
    /\ \A k \in DOMAIN u :
          /\ u[k].id = v[k].id
          /\ u[k].x = v[k].x /\ u[k].y = v[k].y
          /\ u[k].groupId = v[k].groupId
          /\ u[k].locked = v[k].locked

\* C21: for every piece list, trySnap applied to the list a first trySnap call
\* returned gives back the same x, y, groupId and locked for every piece and
\* reports snapped = false
C21_ReSnapChangesNothing ==
    LET first == legacyTrySnap(boardPieces)
        second == legacyTrySnap(first.pieces)
    IN  /\ SamePlaces(first.pieces, second.pieces)
        /\ second.snapped = FALSE
        /\ second.snappedGroupId = null

\* the board is what a trySnap call returned after merging twice, the second
\* merge on a pair the first one brought together or left in place
C21_Witness ==
    /\ "call" \in DOMAIN snapLog
    /\ snapLog.call = "trySnap"
    /\ snapLog.snapped
    /\ Len(snapLog.merges) >= 2
    /\ Len(boardPieces) = 3
    /\ \A k, m \in DOMAIN boardPieces : boardPieces[k].groupId = boardPieces[m].groupId
    /\ ~legacyTrySnap(boardPieces).snapped

\* id, solved position and the four edge descriptors agree piece by piece
SameLayout(a, b) ==
    /\ Len(a.pieces) = Len(b.pieces)
    /\ \A i \in DOMAIN a.pieces :
          /\ a.pieces[i].id = b.pieces[i].id
          /\ a.pieces[i].solvedX = b.pieces[i].solvedX
          /\ a.pieces[i].solvedY = b.pieces[i].solvedY
          /\ \A e \in {EdgeTop, EdgeRight, EdgeBottom, EdgeLeft} :
                /\ a.pieces[i].edges[e].type = b.pieces[i].edges[e].type
                /\ a.pieces[i].edges[e].size = b.pieces[i].edges[e].size
                /\ a.pieces[i].edges[e].offset = b.pieces[i].edges[e].offset
                /\ a.pieces[i].edges[e].tilt = b.pieces[i].edges[e].tilt

OnBorder(p, e, cols, rows) ==
    \/ e = EdgeTop /\ p.row = 0
    \/ e = EdgeBottom /\ p.row = rows - 1
    \/ e = EdgeLeft /\ p.col = 0
    \/ e = EdgeRight /\ p.col = cols - 1

\* C23: in every layout generatePuzzle returns for cols >= 1 and rows >= 1, an
\* edge of a piece is flat exactly when it lies on the outer border of the grid,
\* and every other edge is a tab or a blank
C23_FlatIffBorder ==
    (gLayout # NoLayout /\ gArgs.cols >= 1 /\ gArgs.rows >= 1) =>
        /\ Len(GenPieces) = gArgs.cols * gArgs.rows
        /\ \A i \in DOMAIN GenPieces :
              \A e \in {EdgeTop, EdgeRight, EdgeBottom, EdgeLeft} :
                  LET t == GenPieces[i].edges[e].type
                  IN  /\ t \in {"flat", "tab", "blank"}
                      /\ t = "flat" <=> OnBorder(GenPieces[i], e, gArgs.cols, gArgs.rows)

\* a 3 x 3 layout: its middle piece has no flat edge, and the layout holds
\* interior edges of both kinds, taken as generated and mirrored
C23_Witness ==
    /\ gLayout # NoLayout
    /\ gLayout.cols = 3 /\ gLayout.rows = 3
    /\ \E i \in DOMAIN GenPieces :
          /\ GenPieces[i].col = 1 /\ GenPieces[i].row = 1
          /\ \A e \in {EdgeTop, EdgeRight, EdgeBottom, EdgeLeft} :
                GenPieces[i].edges[e].type # "flat"
    /\ \E i \in DOMAIN GenPieces : GenPieces[i].edges[EdgeTop].type = "blank"
    /\ \E i \in DOMAIN GenPieces : GenPieces[i].edges[EdgeLeft].type = "tab"
    /\ GenPieces[1].edges[EdgeTop].type = "flat"

\* the ids of the layout that buildBoard generates for the props
LayoutIds(props) == {PieceId(c, r) : c \in 0..(props.cols - 1), r \in 0..(props.rows - 1)}

\* the entries of loadedPiecesState whose id no piece of the layout has
UnknownSaved(props) ==
    {k \in DOMAIN props.loadedPiecesState :
        props.loadedPiecesState[k].id \notin LayoutIds(props)}

\* C24: whenever the record the board is rebuilt from holds a piece id that the
\* generated layout does not have, buildBoard reports an error to its caller
C24_UnknownIdIsReported ==
    UnknownSaved(cProps) # {} =>
        buildBoard(cCanvas.w, cCanvas.h, cProps).error

\* the board stands rebuilt from a record with an id the layout lacks
C24_Reached ==
    /\ screen = "puzzle"
    /\ UnknownSaved(cProps) # {}
    /\ Len(board.pieces) = cProps.cols * cProps.rows

\* cols <= 0, rows <= 0, or an image width or height that is not finite
BadArguments(a) ==
    \/ a.cols <= 0 \/ a.rows <= 0
    \/ a.imageWidth.is # "finite" \/ a.imageHeight.is # "finite"

\* C25: a call of generatePuzzle with cols <= 0, rows <= 0 or an image width or
\* height that is not finite ends in an error and returns no layout
C25_BadArgumentsFail ==
    (gLayout # NoLayout /\ BadArguments(gArgs)) => gLayout = GenFailure

\* a layout came back for cols = 0, with no piece and an infinite piece width
C25_DegenerateLayout ==
    /\ gLayout # NoLayout /\ gLayout # GenFailure
    /\ gArgs.cols = 0
    /\ gLayout.pieces = << >>
    /\ gLayout.pieceWidth = JsInfinity

\* the writes that the database has answered
WritesEnded == {k \in DOMAIN writes : writes[k].state # "flight"}
WritesInFlight == {k \in DOMAIN writes : writes[k].state = "flight"}

\* C26: once the back button has taken the player to the home page, a write
\* holding the piece lists as they were at the press has been answered by the
\* database
C26_BackWaitsForSave ==
    page = "home" =>
        \E k \in WritesEnded : writes[k].data = backAt

\* back was pressed while the write of a page-hide autoSave was in flight, the
\* board having changed since that write was made
C26_BackDuringSave ==
    /\ page = "home"
    /\ backAt # NoData
    /\ \E k \in WritesInFlight : ~writes[k].back /\ writes[k].data # backAt
    /\ \A k \in DOMAIN writes : ~writes[k].back

\* C27: at most one write of autoSave is in flight at any time and the table
\* never holds more than the one row of the game, whether the game came with
\* its id or got it from its first insert; and an autoSave call made while
\* savingRef is still set by an unfinished one starts no write
C27_SingleFlight ==
    /\ [](Cardinality(WritesInFlight) <= 1 /\ Len(puzzle_games) <= 1)
    /\ [][savingRef => Len(writes') = Len(writes)]_vars

\* the back button was pressed while the insert of a page-hide autoSave was in
\* flight: that insert has since written the one row, and the autoSave call
\* of the back button started no write
C27_Witness ==
    /\ page = "home"
    /\ Len(writes) = 1
    /\ ~writes[1].back /\ writes[1].op = "insert" /\ writes[1].state = "ok"
    /\ Len(puzzle_games) = 1 /\ gameIdRef = 1

\* a knob point of a piece's path, the path being laid on the piece's solved
\* position
OnBoard(piece, pt) ==
    [x |-> [pt.x EXCEPT !.p = NumAdd(@, NumInt(piece.solvedX))],
     y |-> [pt.y EXCEPT !.p = NumAdd(@, NumInt(piece.solvedY))]]

\* the knobs of two paths lie on each other: base centre, tip, the pair of
\* shoulders, the size and the side they protrude to
SameKnob(p, e, q, f) ==
    LET a == buildPiecePath(p)[e]
        b == buildPiecePath(q)[f]
    IN  /\ ~a.flat /\ ~b.flat
        /\ a.knobH = b.knobH
        /\ a.n = b.n
        /\ OnBoard(p, a.c) = OnBoard(q, b.c)
        /\ OnBoard(p, a.tip) = OnBoard(q, b.tip)
        /\ {OnBoard(p, a.s1), OnBoard(p, a.s2)} = {OnBoard(q, b.s1), OnBoard(q, b.s2)}
        /\ {OnBoard(p, a.b1), OnBoard(p, a.b2)} = {OnBoard(q, b.b1), OnBoard(q, b.b2)}

\* C28: in every generated layout, the knob buildPiecePath draws on the bottom
\* edge of a piece and the one it draws on the top edge of the piece below, and
\* likewise on a right edge and the left edge of the piece beside it, have the
\* same base centre, the same shoulder points and the same tip and protrude to
\* the same side
C28_KnobsCoincide ==
    \A i, j \in DOMAIN GenPieces :
        LET p == GenPieces[i]
            q == GenPieces[j]
        IN  /\ (q.col = p.col /\ q.row = p.row + 1) => SameKnob(p, EdgeBottom, q, EdgeTop)
            /\ (q.row = p.row /\ q.col = p.col + 1) => SameKnob(p, EdgeRight, q, EdgeLeft)

\* a layout with shared edges of both directions whose knobs are tilted and
\* off-centre, one of them a tab of the upper piece and one a tab of the lower
C28_Witness ==
    /\ gLayout # NoLayout
    /\ gLayout.cols >= 2 /\ gLayout.rows >= 2
    /\ \E i, j \in DOMAIN GenPieces :
          /\ GenPieces[i].edges[EdgeBottom].type = "tab"
          /\ GenPieces[j].edges[EdgeBottom].type = "blank"
          /\ GenPieces[i].edges[EdgeBottom].tilt # NumZero
          /\ GenPieces[i].edges[EdgeBottom].offset # NumHundredths(50)
          /\ GenPieces[j].edges[EdgeRight].type # "flat"
          /\ GenPieces[j].edges[EdgeRight].tilt # NumZero
          /\ buildPiecePath(GenPieces[i])[EdgeBottom].n = [nx |-> 0, ny |-> 1]
          /\ buildPiecePath(GenPieces[j])[EdgeBottom].n = [nx |-> 0, ny |-> 0 - 1]

\* the pieces that a release marks placed without moving them before the test
\* of checkAndPlaceGroup: the members of the merged group that were not dragged
PlacedWhereTheyLay ==
    {k \in DOMAIN board.pieces :
        /\ k \notin getGroup(board, drag.piece)
        /\ ~board.pieces[k].isPlaced
        /\ board'.pieces[k].isPlaced}

\* C29: a piece that a release marks placed lay within the snap tolerance
\* SNAP_FRACTION * min(width, height) of its solved position when the group was
\* tested
C29_PlacedWithinSnapTolerance ==
    [][IsRelease => \A k \in PlacedWhereTheyLay : NearSolved(board, k)]_vars

\* a step that ends a drag on the legacy board: handlePieceDrop has run
IsDrop == dragging # NoDragging /\ dragging' = NoDragging

\* all cols * rows pieces of the 3 x 1 game lie on the board in one group
AllInOneGroup(u) ==
    /\ Len(u) = 3
    /\ \A k, m \in DOMAIN u : u[k].groupId = u[m].groupId

\* C30: a drop emits the puzzle-complete notification exactly when it is the
\* drop that brings all pieces into one group: the first such drop does, and
\* no drop made after the pieces are in one group does again
C30_CompleteNotifiedOnce ==
    [][IsDrop =>
         (snapLog'.complete <=>
             (AllInOneGroup(boardPieces') /\ ~AllInOneGroup(boardPieces)))]_vars

\* the finished puzzle lies on the board as one group that is not locked, so
\* that it can be picked up again
C30_FinishedUnlocked ==
    /\ dragging = NoDragging
    /\ AllInOneGroup(boardPieces)
    /\ \A k \in DOMAIN boardPieces : ~boardPieces[k].locked


\* ---- termination of trySnap ----
\* the groupIds of the pieces that lie on the board
BoardGroups(u) ==
    {u[k].groupId : k \in {m \in DOMAIN u : u[m].x # null /\ u[m].y # null}}

\* the merges that trySnap made in pass p of its while loop
MergesOfPass(r, p) == {n \in DOMAIN r.log : r.log[n].pass = p}

\* C31: trySnap ends on every finite list of pieces: each merge, and so each
\* pass of while (changed) that merges, leaves strictly fewer distinct groupIds
\* among the pieces on the board than it found, and the loop makes at most as
\* many passes as the board had groups, plus one
C31_SnapTerminates ==
    LET r == legacyTrySnap(boardPieces)
        size(u) == Cardinality(BoardGroups(u))
    IN  /\ \A n \in DOMAIN r.log : size(r.log[n].after) < size(r.log[n].before)
        /\ \A p \in 1..r.passes :
              LET ms == MergesOfPass(r, p)
              IN  ms # {} =>
                    LET first == CHOOSE n \in ms : \A m \in ms : n <= m
                        last == CHOOSE n \in ms : \A m \in ms : m <= n
                    IN  size(r.log[last].after) < size(r.log[first].before)
        /\ r.passes <= size(boardPieces) + 1

\* a call of trySnap that merged in its first pass and again in its second, the
\* second merge taking a group of two pieces
C31_Witness ==
    /\ snapLog # NoSnapLog
    /\ snapLog.call = "trySnap"
    /\ \E n, m \in DOMAIN snapLog.merges :
          /\ snapLog.merges[n].pass = 1
          /\ snapLog.merges[m].pass = 2
          /\ LET u == snapLog.merges[m].before
             IN  \E a, b \in DOMAIN u : a # b /\ u[a].groupId = u[b].groupId


\* ======================================================================
\* splitImage with the varied tabs: generateRandomTabParams, drawJigsawSide,
\* drawPiecePath, getTabParams.  Ratios are in hundredths, lengths in tenths of
\* a pixel, places along a side in 800ths of the side.
\* ======================================================================
\* the values Math.random() gives posStart (0.30 + [0, 0.10)), posEnd
\* (0.60 + [0, 0.10)), neckWidth (0.08 + [0, 0.04)), tabHeight
\* (0.22 + [0, 0.12)) and headRadius (0.13 + [0, 0.05)): both ends of each
\* range, and for posStart and posEnd the middle
generateRandomTabParams ==
    [dir : {1, 0 - 1}, posStart : {30, 35, 39}, posEnd : {60, 65, 69},
     neckWidth : {8, 11}, tabHeight : {22, 33}, headRadius : {13}]

\* null for the side of a piece on the border
NoTab == [dir |-> 0]

\* generateTabsConfig: rows - 1 lines of cols horizontal edges, rows lines of
\* cols - 1 vertical ones, each with parameters of its own
generateTabsConfig(rows, cols) ==
    [rows : {rows}, cols : {cols},
     horizontal : [0..(rows - 2) -> [0..(cols - 1) -> generateRandomTabParams]],
     vertical : [0..(rows - 1) -> [0..(cols - 2) -> generateRandomTabParams]]]

\* the side of a piece in pixels: the image is 1600 wide and high per cell, at
\* least MIN_DIMENSION on its longer side, so normalizeImage leaves it alone
PieceSide == 1600
\* Math.ceil(pieceW * 0.35)
TabMargin == (PieceSide * 35 + 99) \div 100

\* the point f 800ths along the side from (x0, y0), n tenths of a pixel along
\* the normal
SidePoint(x0, y0, dx, dy, nx, ny, f, n) ==
    [x |-> x0 + (dx * f) \div 800 + nx * n, y |-> y0 + (dy * f) \div 800 + ny * n]

\* drawJigsawSide: the points of the path from (x0, y0) to (x1, y1), those of
\* lineTo and the three of every bezierCurveTo.  The sides of a piece lie along
\* the axes, so Math.sqrt(dx * dx + dy * dy) is |dx| + |dy|
drawJigsawSide(x0, y0, x1, y1, tabParams) ==
    IF tabParams.dir = 0 THEN <<[x |-> x1, y |-> y1]>>
    ELSE LET dx == x1 - x0
             dy == y1 - y0
             len == Abs(dx) + Abs(dy)
             nx == (0 - Sign(dy)) * tabParams.dir
             ny == Sign(dx) * tabParams.dir
             neckStart == 8 * tabParams.posStart
             neckEnd == 8 * tabParams.posEnd
             neckWidth == (len * tabParams.neckWidth) \div 100
             tabHeight == (len * tabParams.tabHeight) \div 100
             midPoint == (neckStart + neckEnd) \div 2
             entryCurvePoint == neckStart + (midPoint - neckStart) \div 4
             exitCurvePoint == midPoint + ((neckEnd - midPoint) * 3) \div 4
             at(f, n) == SidePoint(x0, y0, dx, dy, nx, ny, f, n)
         IN  <<at(neckStart, 0),
               at(neckStart + 8, 0), at(neckStart + 24, (neckWidth * 3) \div 10),
               at(entryCurvePoint, neckWidth),
               at(midPoint - 120, (tabHeight * 7) \div 10), at(midPoint - 96, tabHeight),
               at(midPoint, tabHeight),
               at(midPoint + 96, tabHeight), at(midPoint + 120, (tabHeight * 7) \div 10),
               at(exitCurvePoint, neckWidth),
               at(neckEnd - 24, (neckWidth * 3) \div 10), at(neckEnd - 8, 0),
               at(neckEnd, 0),
               [x |-> x1, y |-> y1]>>

\* { ...tab, dir: -tab.dir }, null staying null
Inverted(tabParams) == [tabParams EXCEPT !.dir = 0 - @]

\* drawPiecePath: top and right as given, bottom and left with dir inverted
drawPiecePath(x, y, w, h, top, right, bottom, left) ==
    [top |-> drawJigsawSide(x, y, x + w, y, top),
     right |-> drawJigsawSide(x + w, y, x + w, y + h, right),
     bottom |-> drawJigsawSide(x + w, y + h, x, y + h, Inverted(bottom)),
     left |-> drawJigsawSide(x, y + h, x, y, Inverted(left))]

getTabParams(row, col, rows, cols, t) ==
    [top |-> IF row = 0 THEN NoTab ELSE t.horizontal[row - 1][col],
     bottom |-> IF row = rows - 1 THEN NoTab ELSE t.horizontal[row][col],
     left |-> IF col = 0 THEN NoTab ELSE t.vertical[row][col - 1],
     right |-> IF col = cols - 1 THEN NoTab ELSE t.vertical[row][col]]

\* the grids of the games drawn: two pieces side by side, two one above the other
TabGrids == {<<1, 2>>, <<2, 1>>}

TabsInit ==
    /\ gArgs = [cols |-> 0] /\ gLayout = NoLayout /\ gPrev = << >> /\ CanvasIdle
    /\ LegacyIdle

\* img.onload of splitImage for a new game: the tabs are drawn at random and
\* every piece is clipped with drawPiecePath at (tabW, tabH) of its own canvas
splitImageTabs(rows, cols) ==
    /\ tabs = NoTabs
    /\ \E t \in generateTabsConfig(rows, cols) :
          /\ tabs' = t
          /\ outlines' =
                [id \in 0..(rows * cols - 1) |->
                    LET r == id \div cols
                        c == id % cols
                        tp == getTabParams(r, c, rows, cols, t)
                    IN  drawPiecePath(10 * TabMargin, 10 * TabMargin,
                                      10 * PieceSide, 10 * PieceSide,
                                      tp.top, tp.right, tp.bottom, tp.left)]
    /\ UNCHANGED <<genVars, canvasVars, saveVars, boardPieces, trayPieces, dragging, snapLog>>

NextTabs == \E g \in TabGrids : splitImageTabs(g[1], g[2])

SpecTabs == TabsInit /\ [][NextTabs]_vars


\* ---- the outlines of the varied tabs ----
\* a point of the canvas of piece id, on the image: splitImage draws the image
\* into that canvas from (c * pieceW - tabW, r * pieceH - tabH)
OnImage(id, pt) ==
    [x |-> pt.x + 10 * ((id % tabs.cols) * PieceSide - TabMargin),
     y |-> pt.y + 10 * ((id \div tabs.cols) * PieceSide - TabMargin)]

\* the two ends of the neck of a side with a tab, on the image: the end of
\* the first lineTo and the end of the last bezierCurveTo
NeckEnds(id, side) == {OnImage(id, side[1]), OnImage(id, side[13])}

\* piece q is the right neighbour of piece p, or the one below it
RightOf(p, q) == q = p + 1 /\ q % tabs.cols # 0
Below(p, q) == q = p + tabs.cols

\* C32: with the tabs generateRandomTabParams draws, the knob drawPiecePath
\* draws on one piece and the recess it draws on the neighbour across the
\* same interior edge cover the same interval of the edge line
C32_KnobAndRecessCoverSameInterval ==
    \A p, q \in DOMAIN outlines :
        /\ RightOf(p, q) => NeckEnds(p, outlines[p].right) = NeckEnds(q, outlines[q].left)
        /\ Below(p, q) => NeckEnds(p, outlines[p].bottom) = NeckEnds(q, outlines[q].top)

\* two pieces side by side are drawn and the tab between them begins at 0.30
\* of the edge and ends at 0.60
C32_TabOffCentre ==
    /\ tabs # NoTabs /\ tabs.cols = 2
    /\ tabs.vertical[0][0].posStart = 30 /\ tabs.vertical[0][0].posEnd = 60
    /\ Len(outlines[0].right) = 14 /\ Len(outlines[1].left) = 14


\* ---- locked pieces of the legacy engine ----
\* the piece lies on the board, at its place of the guide
AtGuidePlace(p) ==
    /\ p.x # null /\ p.y # null
    /\ p.x = PUZZLE_ORIGIN.x - p.offsetX + p.col * (p.displayWidth - 2 * p.offsetX)
    /\ p.y = PUZZLE_ORIGIN.y - p.offsetY + p.row * (p.displayHeight - 2 * p.offsetY)

\* C33: in every state reached through sendToBoard, drags, drops and
\* clearStrayPieces, every locked piece is on the board and lies exactly at
\* PUZZLE_ORIGIN minus offset plus (col * cellW, row * cellH)
C33_LockedAtGuidePlace ==
    /\ \A k \in DOMAIN boardPieces : boardPieces[k].locked => AtGuidePlace(boardPieces[k])
    /\ \A k \in DOMAIN trayPieces : trayPieces[k].locked => AtGuidePlace(trayPieces[k])

\* a locked piece lies in the tray
C33_LockedInTray == \E k \in DOMAIN trayPieces : trayPieces[k].locked

\* a locked piece lies on the board away from its place of the guide
C33_LockedOffGuide ==
    \E k \in DOMAIN boardPieces : boardPieces[k].locked /\ ~AtGuidePlace(boardPieces[k])


\* ---- groups of the canvas engine ----
\* pieces a and b of the board belong to one group
SameGroup(a, b) == board.groups[a.id] = board.groups[b.id]

\* C34: in every reachable state two pieces of one group lie apart exactly as
\* in the solved layout: a.x - b.x = a.solvedX - b.solvedX and
\* a.y - b.y = a.solvedY - b.solvedY
C34_GroupsRigid ==
    \A i, j \in DOMAIN board.pieces :
        LET a == board.pieces[i]
            b == board.pieces[j]
        IN  SameGroup(a, b) =>
                /\ a.x - b.x = a.solvedX - b.solvedX
                /\ a.y - b.y = a.solvedY - b.solvedY


\* C35: in every reachable state all pieces of one group have the same
\* isPlaced; no group is partly placed and partly free
C35_GroupPlacedTogether ==
    \A i, j \in DOMAIN board.pieces :
        SameGroup(board.pieces[i], board.pieces[j])
            => board.pieces[i].isPlaced = board.pieces[j].isPlaced


\* ---- the tray of the canvas engine ----
\* the pieces of the board that share the group of piece p, p among them
GroupMates(p) == {k \in DOMAIN board.pieces : SameGroup(board.pieces[k], p)}

\* every piece of the tray is alone in its group and is not placed
TrayPiecesAlone ==
    \A i \in DOMAIN board.pieces :
        board.pieces[i].id \in trayIds
            => GroupMates(board.pieces[i]) = {i} /\ ~board.pieces[i].isPlaced

\* a release hands a piece to the tray; a rebuild of the board on a resize,
\* which ends the drag as well, is no release
ReturnedToTray == IsRelease /\ cCanvas' = cCanvas /\ trayIds' \ trayIds # {}

\* a piece leaves the tray into a drag
LiftedFromTray ==
    /\ drag = NoDrag /\ drag' # NoDrag /\ drag'.fromTray
    /\ Len(board'.pieces) = Len(board.pieces)

\* C36: every piece of the tray is alone in its group and not placed; a
\* release returns a piece to the tray only when the drag group has exactly
\* one member, and then it is that piece; the lift of a piece from the tray
\* moves that piece and no other
C36_TraySinglePieces ==
    /\ []TrayPiecesAlone
    /\ [][ReturnedToTray =>
            /\ Cardinality(GroupMates(board.pieces[drag.piece])) = 1
            /\ trayIds' \ trayIds = {board.pieces[drag.piece].id}]_vars
    /\ [][LiftedFromTray =>
            \A k \in DOMAIN board.pieces :
                k # drag'.piece =>
                    /\ board'.pieces[k].x = board.pieces[k].x
                    /\ board'.pieces[k].y = board.pieces[k].y]_vars

\* a piece lies in the tray where a release over it left it, while the other
\* two, merged into one group and not placed, hang over the tray where they
\* were released
C36_Witness ==
    /\ drag = NoDrag
    /\ \E i, j, k \in DOMAIN board.pieces :
          /\ i # j /\ i # k /\ j # k
          /\ board.pieces[i].id \in trayIds
          /\ board.pieces[i].y = cCanvas.h - DRAWER_PEEK_HEIGHT - 10
          /\ board.groups[board.pieces[j].id] = board.groups[board.pieces[k].id]
          /\ board.pieces[j].id \notin trayIds /\ board.pieces[k].id \notin trayIds
          /\ ~board.pieces[j].isPlaced
          /\ \/ board.pieces[j].y = cCanvas.h - DRAWER_PEEK_HEIGHT - 10
             \/ board.pieces[k].y = cCanvas.h - DRAWER_PEEK_HEIGHT - 10


\* ---- the pieces of a legacy game ----
\* how many entries of the list carry the id
CountOfId(pieces, id) == Cardinality({k \in DOMAIN pieces : pieces[k].id = id})

\* C37: after any sequence of sendToBoard, clearStrayPieces, drags and drops
\* every one of the COLS * ROWS piece ids is in exactly one of trayPieces and
\* boardPieces, once; none is lost and none appears twice
C37_PiecesConserved ==
    /\ \A id \in 0..(3 * 1 - 1) :
          CountOfId(trayPieces, id) + CountOfId(boardPieces, id) = 1
    /\ Len(trayPieces) + Len(boardPieces) = 3 * 1

\* two pieces sent to the board were joined by a drop and the third, locked on
\* the guide by another drop, was taken back to the tray by clearStrayPieces
C37_Witness ==
    /\ Len(boardPieces) = 2 /\ Len(trayPieces) = 1
    /\ boardPieces[1].groupId = boardPieces[2].groupId
    /\ trayPieces[1].locked /\ trayPieces[1].x = null
    /\ dragging = NoDragging

====
